---------------------------- MODULE Spec2Model ----------------------------
(***************************************************************************)
(* Model of the topic subsystem of trendrader:                             *)
(*   - trendradar/topic/storage.py     TopicStorage   (archive records)    *)
(*   - trendradar/topic/summarizer.py  HistorySummarizer (history digest)  *)
(*   - trendradar/topic/classifier.py  TopicClassifier                     *)
(*   - topic-layer/router.py           TopicRouter (matcher, timeline)     *)
(*                                                                         *)
(* Text is modelled as a sequence of tokens.  A token is a piece of text   *)
(* that the code never looks inside: every literal the code searches for,  *)
(* splits on or replaces is a token or a sequence of tokens, so str.split, *)
(* str.replace, str.strip and `in` become the same operations on token     *)
(* sequences.  TLA+ strings are ASCII, so a Chinese literal of the source  *)
(* is written as an ASCII token whose definition names the literal.        *)
(***************************************************************************)
EXTENDS Integers, Sequences, FiniteSets, TLC

VARIABLES
    files,     \* archive store: (topic_id, date) -> content of <base_dir>/<topic_id>/<date>.md
    dirs,      \* topic directories that exist under base_dir
    last,      \* the operation performed last, with its arguments and what it saw
    digest,    \* value returned by the last get_recent_summaries call (None otherwise)
    nops,      \* number of operations performed so far
    mt,        \* matcher run: text, keyword(s), result
    cl,        \* classifier run: topics, inputs, result
    tl         \* timeline file of one topic and the last generate_timeline run

vars == <<files, dirs, last, digest, nops, mt, cl, tl>>

None == "None"

-----------------------------------------------------------------------------
(* Bounds of the model *)

\* operations (save, human edit, summarize) in one behaviour of the archive store
MaxOps == 3
\* largest `days` argument given to get_recent_summaries
MaxDays == 3

-----------------------------------------------------------------------------
(* Python str operations, on token sequences *)

NL == "\n"

IsSpace(tok) == tok \in {" ", NL}

\* s[i:i+len(p)] == p
MatchAt(s, p, i) ==
    /\ i >= 1
    /\ i + Len(p) - 1 <= Len(s)
    /\ \A k \in 1..Len(p) : s[i + k - 1] = p[k]

\* p in s
Contains(s, p) == \E i \in 1..(Len(s) - Len(p) + 1) : MatchAt(s, p, i)


\* the positions in lo..hi where p occurs in s, in increasing order
RECURSIVE Occurrences(_, _, _, _)
Occurrences(s, p, lo, hi) ==
    IF lo > hi THEN <<>>
    ELSE IF lo = hi THEN (IF MatchAt(s, p, lo) THEN <<lo>> ELSE <<>>)
    ELSE Occurrences(s, p, lo, (lo + hi) \div 2)
            \o Occurrences(s, p, (lo + hi) \div 2 + 1, hi)

\* the occurrences a left-to-right scan takes: none overlaps the one before.
\* The scan of occ[1..n] is the scan of its first half followed by the scan
\* of its second half from where the first one ended.
RECURSIVE Cuts(_, _, _)
Cuts(occ, from, plen) ==
    IF occ = <<>> THEN <<>>
    ELSE IF Len(occ) = 1 THEN (IF occ[1] < from THEN <<>> ELSE occ)
    ELSE LET half == Len(occ) \div 2
             left == Cuts(SubSeq(occ, 1, half), from, plen)
             next == IF left = <<>> THEN from ELSE left[Len(left)] + plen
         IN  left \o Cuts(SubSeq(occ, half + 1, Len(occ)), next, plen)

\* s.find(p) + 1  (0 when p does not occur)
Find(s, p) ==
    LET occ == Occurrences(s, p, 1, Len(s) - Len(p) + 1) IN
    IF occ = <<>> THEN 0 ELSE occ[1]

\* s.split(p), p not empty
Split(s, p) ==
    LET cuts == Cuts(Occurrences(s, p, 1, Len(s) - Len(p) + 1), 1, Len(p)) IN
    [k \in 1..(Len(cuts) + 1) |->
        SubSeq(s, IF k = 1 THEN 1 ELSE cuts[k - 1] + Len(p),
                  IF k = Len(cuts) + 1 THEN Len(s) ELSE cuts[k] - 1)]

RECURSIVE LStrip(_)
LStrip(s) == IF s # <<>> /\ IsSpace(Head(s)) THEN LStrip(Tail(s)) ELSE s

RECURSIVE RStrip(_)
RStrip(s) ==
    IF s # <<>> /\ IsSpace(s[Len(s)]) THEN RStrip(SubSeq(s, 1, Len(s) - 1)) ELSE s

\* s.strip()
Strip(s) == LStrip(RStrip(s))

\* sep.join(parts), parts a sequence of token sequences
RECURSIVE Join(_, _)
Join(parts, sep) ==
    IF parts = <<>> THEN <<>>
    ELSE IF Len(parts) = 1 THEN parts[1]
    ELSE LET half == Len(parts) \div 2
         IN  Join(SubSeq(parts, 1, half), sep) \o sep
                \o Join(SubSeq(parts, half + 1, Len(parts)), sep)

\* s.replace(p, r), p not empty: r between the pieces of s.split(p)
Replace(s, p, r) == Join(Split(s, p), r)

\* the concatenation of a sequence of sequences
RECURSIVE Flatten(_)
Flatten(ss) ==
    IF ss = <<>> THEN <<>>
    ELSE IF Len(ss) = 1 THEN ss[1]
    ELSE LET half == Len(ss) \div 2
         IN  Flatten(SubSeq(ss, 1, half)) \o Flatten(SubSeq(ss, half + 1, Len(ss)))

\* a str as tokens: the empty string has none
Tok(x) == IF x = "" THEN <<>> ELSE <<x>>

\* str(n) for the numbers the model prints
Digits == <<"0", "1", "2", "3", "4", "5", "6", "7", "8", "9">>
NumStr(n) == Digits[n + 1]

\* the value of a sequence of digits
RECURSIVE Decimal(_)
Decimal(t) ==
    IF t = <<>> THEN 0
    ELSE 10 * Decimal(SubSeq(t, 1, Len(t) - 1)) + (CHOOSE n \in 0..9 : Digits[n + 1] = t[Len(t)])

\* int(s): the number when s, with surrounding whitespace dropped, is a
\* sequence of digits; -1 stands for the ValueError int() raises otherwise
ParseInt(s) ==
    LET t == Strip(s) IN
    IF t # <<>> /\ \A k \in 1..Len(t) : \E n \in 0..9 : Digits[n + 1] = t[k] THEN Decimal(t) ELSE -1

-----------------------------------------------------------------------------
(* Literals of storage.py and summarizer.py *)

TotalKey    == "total-items"          \* 总条目
HotKey      == "hotlist-source"       \* 热榜来源
RssKey      == "RSS-source"           \* RSS来源
Tiao        == "tiao"                 \* 条
StatsTitle  == "stats-summary"        \* 📊 统计摘要
ListTitle   == "content-list"         \* 📰 内容列表
NotesPrompt == "add-your-analysis"    \* 在此添加你的分析和思考
ImpKey      == "importance"           \* 重要度
Bullet      == "   - "

\* further tokens of storage.py, with the text they stand for:
\*   "hotlist-news"              热榜新闻
\*   "RSS-feeds"                 RSS订阅
\*   "human-notes"               🖊️ 人工备注
\*   "importance-mark"           ⭐ 重要度标记
\*   "1-5-stars"                 1-5星，数字越大越重要
\*   "[ ]1 [ ]2 [ ]3 [ ]4 [ ]5"  ☐ 1星 ☐ 2星 ☐ 3星 ☐ 4星 ☐ 5星
\*   "source"                    来源
\*   "appears"                   出现
\*   "times"                     次
\*   "rank"                      排名
\*   "time"                      时间
\*   "published"                 发布时间
\*   "author"                    作者
\*   "summary"                   摘要

H2 == <<"#", "#", " ">>
H3 == <<"#", "#", "#", " ">>

\* "## 🖊️ 人工备注" and "## ⭐ 重要度标记"
NotesMarker == H2 \o <<"human-notes">>
ImpMarker   == H2 \o <<"importance-mark">>
\* "<!-- 在此添加你的分析和思考 -->"
Placeholder == <<"<!--", " ", NotesPrompt, " ", "-->">>
\* "<!-- 1-5星，数字越大越重要 -->"
ImpComment  == <<"<!--", " ", "1-5-stars", " ", "-->">>
\* "重要度: ☐ 1星 ☐ 2星 ☐ 3星 ☐ 4星 ☐ 5星"
ImpLine     == <<ImpKey, ":", " ", "[ ]1 [ ]2 [ ]3 [ ]4 [ ]5">>


-----------------------------------------------------------------------------
(* Character counts: len() of the tokens whose length the code measures *)

\* len(tok) for the tokens that occur in summaries, notes and digests
TokLen(tok) ==
    CASE tok \in {"#", " ", NL, ":", ")", Tiao, "zhi"} -> 1
      [] tok \in {"0", "1", "2", "3", "4", "5", "6", "7", "8", "9"} -> 1
      [] tok \in {"**", "> ", " (", ", ", "hot", "note", "N1", "CaiJing"} -> 2
      [] tok \in {"RSS", "...", " - ", "-->"} -> 3
      [] tok \in {"recent", "range", "<!--", "  > ", "AIKeJi"} -> 4
      [] tok = "days-history" -> 6
      [] tok \in {"ai-tech", "finance"} -> 7
      [] tok \in {"2026-01-29", "2026-01-30", "2026-01-31", "2026-02-01",
                  "2026-02-02", "2026-02-03"} -> 10
      [] tok = NotesPrompt -> 11
      [] tok = "truncated-notice" -> 16
      [] tok = "x50" -> 50
      [] tok = "x100" -> 100
      [] tok = "x150" -> 150

\* len(s)
RECURSIVE CharLen(_)
CharLen(s) ==
    IF s = <<>> THEN 0
    ELSE IF Len(s) = 1 THEN TokLen(s[1])
    ELSE LET half == Len(s) \div 2
         IN  CharLen(SubSeq(s, 1, half)) + CharLen(SubSeq(s, half + 1, Len(s)))

\* s[:n]; the texts of the model are cut between two tokens
RECURSIVE TakeChars(_, _)
TakeChars(s, n) ==
    IF s = <<>> \/ TokLen(Head(s)) > n THEN <<>>
    ELSE <<Head(s)>> \o TakeChars(Tail(s), n - TokLen(Head(s)))

-----------------------------------------------------------------------------
(* TopicStorage._generate_markdown *)

\* item.get(f, default)
Get(item, f, default) == IF f \in DOMAIN item THEN item[f] ELSE default

IsHotlist(item) == Get(item, "source_type", None) = "hotlist"
IsRss(item)     == Get(item, "source_type", None) = "rss"

\* "- **<key>**: <n> 条"
StatLine(key, n) == <<"- ", "**", key, "**", ":", " ", NumStr(n), " ", Tiao>>

\* "<i>. **[<title>](<url>)**" or "<i>. **<title>**"
EntryHead(i, item) ==
    LET url == Get(item, "url", "") IN
    IF url # ""
    THEN <<NumStr(i), ". ", "**", "[">> \o item.title \o <<"](", url, ")", "**">>
    ELSE <<NumStr(i), ". ", "**">> \o item.title \o <<"**">>

\* the lines of hotlist entry number i
HotlistEntry(i, item) ==
    LET source     == Get(item, "source_id", "unknown")
        count      == Get(item, "count", 1)
        ranks      == Get(item, "ranks", <<>>)
        first_time == Get(item, "first_time", "")
        last_time  == Get(item, "last_time", "")
        shown      == SubSeq(ranks, 1, IF Len(ranks) > 5 THEN 5 ELSE Len(ranks))
        rank_str   == Join([k \in 1..Len(shown) |-> <<"#", NumStr(shown[k])>>], <<", ">>)
                        \o (IF Len(ranks) > 5 THEN <<"...">> ELSE <<>>)
        time_display == IF first_time = last_time THEN <<first_time>>
                        ELSE <<first_time, " ~ ">> \o Tok(last_time)
    IN  <<EntryHead(i, item)>>
        \o <<(<<Bullet, "source", ":", " ", source, " | ", "appears", " ",
                NumStr(count), " ", "times">>)>>
        \o (IF ranks # <<>> THEN <<(<<Bullet, "rank", ":", " ">> \o rank_str)>> ELSE <<>>)
        \o (IF first_time # ""
            THEN <<(<<Bullet, "time", ":", " ">> \o time_display)>> ELSE <<>>)
        \o << <<>> >>

\* the lines of RSS entry number i
RssEntry(i, item) ==
    LET source       == Get(item, "source_id", "unknown")
        published_at == Get(item, "published_at", "")
        summary      == Get(item, "summary", <<>>)
        author       == Get(item, "author", "")
        summary_short == IF CharLen(summary) > 200
                         THEN TakeChars(summary, 200) \o <<"...">> ELSE summary
    IN  <<EntryHead(i, item)>>
        \o <<(<<Bullet, "source", ":", " ", source>>)>>
        \o (IF published_at # ""
            THEN <<(<<Bullet, "published", ":", " ", published_at>>)>> ELSE <<>>)
        \o (IF author # "" THEN <<(<<Bullet, "author", ":", " ", author>>)>> ELSE <<>>)
        \o (IF summary # <<>>
            THEN <<(<<Bullet, "summary", ":", " ">> \o summary_short)>> ELSE <<>>)
        \o << <<>> >>

\* StatsLines with the hotlist count taken over all the items
StatsLinesUnfiltered(items) ==
    LET rss_count == Len(SelectSeq(items, IsRss))
    IN  << H2 \o <<StatsTitle, NL>>,
           StatLine(TotalKey, Len(items)),
           StatLine(HotKey, Len(items)),
           StatLine(RssKey, rss_count) \o <<NL>> >>

\* the statistics block: the three counts
StatsLines(items) ==
    LET hotlist_count == Len(SelectSeq(items, IsHotlist))
        rss_count     == Len(SelectSeq(items, IsRss))
    IN  << H2 \o <<StatsTitle, NL>>,
           StatLine(TotalKey, Len(items)),
           StatLine(HotKey, hotlist_count),
           StatLine(RssKey, rss_count) \o <<NL>> >>

\* the content list: hotlist entries, then RSS entries
ContentLines(items) ==
    LET hotlist_items  == SelectSeq(items, IsHotlist)
        rss_items_list == SelectSeq(items, IsRss)
    IN  << H2 \o <<ListTitle, NL>> >>
        \o (IF hotlist_items # <<>>
            THEN << H3 \o <<"hotlist-news", NL>> >>
                 \o Flatten([i \in 1..Len(hotlist_items) |->
                                HotlistEntry(i, hotlist_items[i])])
            ELSE <<>>)
        \o (IF rss_items_list # <<>>
            THEN << H3 \o <<"RSS-feeds", NL>> >>
                 \o Flatten([i \in 1..Len(rss_items_list) |->
                                RssEntry(i, rss_items_list[i])])
            ELSE <<>>)

\* the human-editable tail of a fresh record
HumanLines ==
    << <<NL, "---", NL>>,
       NotesMarker \o <<NL>>,
       Placeholder \o <<NL, NL>>,
       ImpMarker \o <<NL>>,
       ImpComment \o <<NL>>,
       ImpLine \o <<NL>> >>

\* "# <topic_name> - <date>\n"
TitleLine(date, topic_name) == <<"#", " ">> \o topic_name \o <<" - ", date, NL>>

GenerateMarkdown(date, topic_name, items) ==
    Join(<<TitleLine(date, topic_name)>> \o StatsLines(items)
            \o ContentLines(items) \o HumanLines, <<NL>>)

-----------------------------------------------------------------------------
(* TopicStorage._append_to_existing *)

\* human_notes taken as it stands between the two markers, not stripped
ExistingNotesUnstripped(existing_content) ==
    IF Contains(existing_content, NotesMarker)
    THEN LET parts == Split(existing_content, NotesMarker) IN
         IF Len(parts) > 1 THEN Split(parts[2], ImpMarker)[1] ELSE <<>>
    ELSE <<>>

\* human_notes: the text between the two section markers, stripped
ExistingNotes(existing_content) ==
    IF Contains(existing_content, NotesMarker)
    THEN LET parts == Split(existing_content, NotesMarker) IN
         IF Len(parts) > 1 THEN Strip(Split(parts[2], ImpMarker)[1]) ELSE <<>>
    ELSE <<>>

\* importance: the text after the importance marker, stripped
ExistingImportance(existing_content) ==
    IF Contains(existing_content, NotesMarker)
    THEN LET parts == Split(existing_content, NotesMarker) IN
         IF Len(parts) > 1
         THEN LET notes_section == Split(parts[2], ImpMarker) IN
              IF Len(notes_section) > 1 THEN Strip(notes_section[2]) ELSE <<>>
         ELSE <<>>
    ELSE <<>>

\* topic_name: from the first line of the file, else the directory name
ExistingTopicName(existing_content, parent) ==
    IF Contains(existing_content, <<"#", " ">>)
    THEN LET first_line == Split(existing_content, <<NL>>)[1] IN
         IF Contains(first_line, <<" - ">>)
         THEN Strip(Replace(Split(first_line, <<" - ">>)[1], <<"#">>, <<>>))
         ELSE <<parent>>
    ELSE <<parent>>

\* the content written over an existing record <parent>/<stem>.md
AppendToExisting(existing_content, stem, parent, new_items) ==
    LET human_notes == ExistingNotes(existing_content)
        importance  == ExistingImportance(existing_content)
        topic_name  == ExistingTopicName(existing_content, parent)
        content     == GenerateMarkdown(stem, topic_name, new_items)
        with_notes  == IF human_notes # <<>>
                       THEN Replace(content, Placeholder, human_notes) ELSE content
    IN  IF importance # <<>> THEN Replace(with_notes, ImpLine, importance)
        ELSE with_notes


-----------------------------------------------------------------------------
(* The archive store: inputs of the model *)

\* topic ids (directory names) and the display name each is saved with
Topics == {"ai-tech", "finance"}
TopicName(topic_id) == IF topic_id = "ai-tech" THEN <<"AIKeJi">> ELSE <<"CaiJing">>

\* the calendar the dates of the model are taken from, in chronological order
Calendar == <<"2026-01-29", "2026-01-30", "2026-01-31",
              "2026-02-01", "2026-02-02", "2026-02-03">>

\* the records that are saved: (topic_id, date)
StoreKeys == { <<"ai-tech", "2026-02-01">>, <<"ai-tech", "2026-02-02">>,
               <<"finance", "2026-02-01">> }

ItemH1 == [title |-> <<"OpenAI-model">>, source_type |-> "hotlist",
           source_id |-> "src1", url |-> "http://x/1", mobile_url |-> "",
           ranks |-> <<1>>, count |-> 2,
           first_time |-> "09:00", last_time |-> "10:00"]
ItemH2 == [title |-> <<"chip", " ", "news">>, source_type |-> "hotlist",
           source_id |-> "src2", url |-> "", mobile_url |-> "",
           ranks |-> <<3, 1, 4, 1, 5, 9>>, count |-> 6,
           first_time |-> "09:00", last_time |-> "09:00"]
ItemR1 == [title |-> <<"AI", " ", "weekly">>, source_type |-> "rss",
           source_id |-> "feed1", url |-> "http://x/2",
           published_at |-> "2026-02-01 10:00",
           summary |-> <<"x100", "x100", "x50">>, author |-> "bob"]
ItemR2 == [title |-> <<"short">>, source_type |-> "rss",
           source_id |-> "feed1", url |-> "",
           published_at |-> "", summary |-> <<>>, author |-> ""]

\* the item lists given to save
ItemLists == { <<>>, <<ItemH1>>, <<ItemR1, ItemH2, ItemR2>> }

ImpTicked == "[ ]1 [ ]2 [x]3 [ ]4 [ ]5"

\* the record of an operation on the store
Op(op, topic_id, date, items, append, existed, before, repeat) ==
    [op |-> op, topic_id |-> topic_id, date |-> date, items |-> items,
     append |-> append, existed |-> existed, before |-> before, repeat |-> repeat]

NoOp == Op("none", None, None, <<>>, FALSE, FALSE, <<>>, FALSE)

\* the value of `mt` before match_keywords has been called
NoMatch == [run |-> FALSE, text |-> <<>>, keywords |-> <<>>, result |-> FALSE]

\* the value of `cl` before classify has been called
NoClassify == [run |-> FALSE, topics |-> <<>>, news_items |-> <<>>, rss_items |-> <<>>,
               result |-> <<>>]

\* the value of `tl` before a timeline exists
NoTimeline == [exists |-> FALSE, content |-> <<>>, runs |-> 0, called |-> FALSE,
               trends |-> <<>>, existed |-> FALSE, before |-> <<>>, new_trends |-> <<>>]

\* no call of get_recent_summaries yet, or another operation since
NoDigest ==
    [called |-> FALSE, days |-> 0, current_date |-> None, max_tokens |-> 0,
     order |-> <<>>, dates |-> <<>>, parts |-> <<>>, truncated |-> FALSE,
     text |-> <<>>, base_exists |-> TRUE]

\* a write that reaches every record of the topic directory
WriteWholeTopic(topic_id, date, content) ==
    [k \in DOMAIN files \cup {<<topic_id, date>>} |->
        IF k[1] = topic_id THEN content ELSE files[k]]

\* the store with file <topic_id>/<date>.md holding content
Write(topic_id, date, content) ==
    [k \in DOMAIN files \cup {<<topic_id, date>>} |->
        IF k = <<topic_id, date>> THEN content ELSE files[k]]

-----------------------------------------------------------------------------
(* TopicStorage.save_topic_classification *)

\* save that merges into an existing record whatever the append flag
SavedContentAlwaysAppend(date, topic_id, topic_name, items, append) ==
    IF <<topic_id, date>> \in DOMAIN files
    THEN AppendToExisting(files[<<topic_id, date>>], date, topic_id, items)
    ELSE GenerateMarkdown(date, topic_name, items)

\* the content save writes to <topic_id>/<date>.md
SavedContent(date, topic_id, topic_name, items, append) ==
    IF <<topic_id, date>> \in DOMAIN files /\ append
    THEN AppendToExisting(files[<<topic_id, date>>], date, topic_id, items)
    ELSE GenerateMarkdown(date, topic_name, items)

save_topic_classification(date, topic_id, topic_name, items, append) ==
    LET existed == <<topic_id, date>> \in DOMAIN files
        before  == IF existed THEN files[<<topic_id, date>>] ELSE <<>>
    IN  /\ nops < MaxOps
        /\ dirs' = dirs \cup {topic_id}
        /\ files' = Write(topic_id, date,
                          SavedContent(date, topic_id, topic_name, items, append))
        /\ last' = Op("save", topic_id, date, items, append, existed, before,
                      /\ last.op = "save"
                      /\ last.topic_id = topic_id
                      /\ last.date = date
                      /\ last.items = items
                      /\ last.append
                      /\ append)
        /\ digest' = NoDigest
        /\ nops' = nops + 1
        /\ UNCHANGED <<mt, cl, tl>>

Save ==
    \E k \in StoreKeys, items \in ItemLists, append \in BOOLEAN :
        save_topic_classification(k[2], k[1], TopicName(k[1]), items, append)

-----------------------------------------------------------------------------
(* A human edits the two human-editable regions of a record *)

\* the record has the two section markers, once each and in order
WellFormed(content) ==
    /\ Len(Split(content, NotesMarker)) = 2
    /\ Len(Split(Split(content, NotesMarker)[2], ImpMarker)) = 2
    /\ Len(Split(content, ImpMarker)) = 2

\* the record with the text of the human-notes region replaced
WithNotes(content, text) ==
    LET parts == Split(content, NotesMarker)
        rest  == Split(parts[2], ImpMarker)
    IN  parts[1] \o NotesMarker \o <<NL, NL>> \o text \o <<NL, NL, NL>>
            \o ImpMarker \o rest[2]

\* the record with the text of the importance-marker region replaced
WithImportance(content, text) ==
    LET parts == Split(content, ImpMarker)
    IN  parts[1] \o ImpMarker \o <<NL, NL>> \o text \o <<NL>>

\* what a human writes into the human-notes region: a note, a note beneath
\* the placeholder comment, a note that quotes a count ("总条目: 9 条")
EditNotes ==
    \E k \in DOMAIN files,
       text \in { <<"N1">>, Placeholder \o <<NL, "N1">>,
                  <<TotalKey, ":", " ", "9", " ", Tiao>> } :
        /\ nops < MaxOps
        /\ WellFormed(files[k])
        /\ files' = [files EXCEPT ![k] = WithNotes(files[k], text)]
        /\ last' = Op("edit_notes", k[1], k[2], <<>>, FALSE, TRUE, files[k], FALSE)
        /\ digest' = NoDigest
        /\ nops' = nops + 1
        /\ UNCHANGED <<dirs, mt, cl, tl>>

\* what a human writes into the importance-marker region: the marks ticked,
\* with the comment above them or in its place
EditImportance ==
    \E k \in DOMAIN files,
       text \in { ImpComment \o <<NL, NL, ImpKey, ":", " ", ImpTicked>>,
                  <<ImpKey, ":", " ", ImpTicked>> } :
        /\ nops < MaxOps
        /\ WellFormed(files[k])
        /\ files' = [files EXCEPT ![k] = WithImportance(files[k], text)]
        /\ last' = Op("edit_importance", k[1], k[2], <<>>, FALSE, TRUE, files[k], FALSE)
        /\ digest' = NoDigest
        /\ nops' = nops + 1
        /\ UNCHANGED <<dirs, mt, cl, tl>>

\* TopicStorage.__init__: an empty base directory
InitStore ==
    /\ files = <<>>
    /\ dirs = {}
    /\ last = NoOp
    /\ digest = NoDigest
    /\ nops = 0
    /\ mt = NoMatch
    /\ cl = NoClassify
    /\ tl = NoTimeline

NextStore == Save \/ EditNotes \/ EditImportance

SpecStore == InitStore /\ [][NextStore]_vars


-----------------------------------------------------------------------------
(* Regions of an archive record, located by the literal section markers *)

\* the record the last operation wrote or edited
LastFile == files[<<last.topic_id, last.date>>]

\* text of the human-notes region: between the two markers
NotesRegion(content) ==
    Strip(Split(Split(content, NotesMarker)[2], ImpMarker)[1])

\* text of the importance-marker region: after its marker
ImpRegion(content) == Strip(Split(content, ImpMarker)[2])

\* the derived part below the title line: stats block and content list
DerivedBody(content) ==
    LET head == Split(content, NotesMarker)[1]
    IN  SubSeq(head, Find(head, <<NL>>) + 1, Len(head))

\* the stats block: from its title to the title of the content list
StatsBlock(content) ==
    Split(Split(content, H2 \o <<StatsTitle>>)[2], H2 \o <<ListTitle>>)[1]

\* the content list: from its title to the rule above the human regions
ContentList(content) ==
    Split(Split(content, H2 \o <<ListTitle>>)[2], <<NL, "---", NL>>)[1]

\* the numbers the stats block reports for a key
Reported(content, key) ==
    LET block == StatsBlock(content)
    IN  {n \in 0..9 : Contains(block, StatLine(key, n))}

\* number of occurrences of p in s
CountOcc(s, p) == Len(Split(s, p)) - 1

\* number of items of a source type
CountType(items, type) ==
    Cardinality({i \in 1..Len(items) : items[i].source_type = type})

\* the content list has an entry with the item's title (and url, if any)
Listed(content, item) ==
    IF item.url # ""
    THEN Contains(ContentList(content),
                  <<". ", "**", "[">> \o item.title \o <<"](", item.url, ")", "**", NL>>)
    ELSE Contains(ContentList(content),
                  <<". ", "**">> \o item.title \o <<"**", NL>>)

(* C1: two append-mode saves in succession for the same (topic_id, date)
   with the same item list: the second leaves the record file as the
   first wrote it. *)
C1_SaveIdempotent ==
    (last.op = "save" /\ last.repeat) => LastFile = last.before

(* C2: an append-mode save over a record with human notes N (not the
   placeholder) and importance marks I, with another item list, writes a
   record whose notes region is N, whose importance region is I, and
   whose stats block and content list are those of the new items. *)
C2_HumanRegionsPreserved ==
    ( /\ last.op = "save" /\ last.append /\ last.existed
      /\ WellFormed(last.before)
      /\ NotesRegion(last.before) \notin {<<>>, Placeholder}
      /\ DerivedBody(last.before)
            # DerivedBody(GenerateMarkdown(last.date, <<>>, last.items)) )
    => /\ WellFormed(LastFile)
       /\ NotesRegion(LastFile) = NotesRegion(last.before)
       /\ ImpRegion(LastFile) = ImpRegion(last.before)
       /\ DerivedBody(LastFile)
            = DerivedBody(GenerateMarkdown(last.date, <<>>, last.items))

(* C10: a save for a (topic_id, date) with no existing record writes a
   record whose stats block reports the number of items, of hotlist items
   and of rss items, and whose content list has one entry per item, with
   its title and url. *)
C10_FreshRecord ==
    (last.op = "save" /\ ~last.existed) =>
        /\ Reported(LastFile, TotalKey) = {Len(last.items)}
        /\ Reported(LastFile, HotKey) = {CountType(last.items, "hotlist")}
        /\ Reported(LastFile, RssKey) = {CountType(last.items, "rss")}
        /\ \A i \in 1..Len(last.items) : Listed(LastFile, last.items[i])
        /\ CountOcc(ContentList(LastFile), <<". ", "**">>) = Len(last.items)

\* a fresh record was written for a list with hotlist and rss items
C10_Witness ==
    /\ last.op = "save" /\ ~last.existed
    /\ CountType(last.items, "hotlist") = 1
    /\ CountType(last.items, "rss") = 2
    /\ Reported(LastFile, TotalKey) = {3}

(* C11: a save for a (topic_id, date) with no record, or with append false,
   leaves the file equal to the record generated from the date, the topic
   name and the items given; no human note and no importance tick of the
   file it replaces is left in it. *)
C11_FreshWrite ==
    (last.op = "save" /\ (~last.existed \/ ~last.append)) =>
        /\ LastFile = GenerateMarkdown(last.date, TopicName(last.topic_id), last.items)
        /\ ~Contains(LastFile, <<"N1">>)
        /\ ~Contains(LastFile, <<ImpTicked>>)

\* a save with append false replaced a record a human had written notes in
C11_Witness ==
    /\ last.op = "save" /\ ~last.append /\ last.existed
    /\ Contains(last.before, <<"N1">>)
    /\ last.items # <<>>
    /\ NotesRegion(LastFile) = Placeholder

-----------------------------------------------------------------------------
(* TopicStorage.read_topic_file *)

\* the content of <topic_id>/<date>.md; found is FALSE for the None returned
\* when the file does not exist
read_topic_file(topic_id, date) ==
    IF <<topic_id, date>> \in DOMAIN files
    THEN [found |-> TRUE, text |-> files[<<topic_id, date>>]]
    ELSE [found |-> FALSE, text |-> <<>>]

-----------------------------------------------------------------------------
(* Literals of summarizer.py *)

\* tokens of summarizer.py, with the text they stand for:
\*   "recent"        📊 最近
\*   "days-history"  天同主题历史
\*   "range"         时间范围
\*   "zhi"           至
\*   "hot"           热榜
\*   "note"          备注

NoticeText == "truncated-notice"     \* ⚠️ 历史数据过多，已截断...

\* "\n> ⚠️ 历史数据过多，已截断...\n"
TruncationNotice == <<NL, "> ", NoticeText, NL>>

-----------------------------------------------------------------------------
(* HistorySummarizer._get_date_range *)

\* datetime.strptime(date, "%Y-%m-%d"): the day number of a date string
DateOrd(date) == CHOOSE i \in 1..Len(Calendar) : Calendar[i] = date

\* (day).strftime("%Y-%m-%d")
DateStr(ord) == Calendar[ord]

\* _get_date_range counting from the end date itself
GetDateRangeFromCurrent(end_date, days, exclude_current) ==
    LET end == DateOrd(end_date)
    IN  [k \in 1..(IF days > 0 THEN days ELSE 0) |-> DateStr(end - (k - 1))]

\* the dates end - i for i in range(start_offset, days + start_offset)
GetDateRange(end_date, days, exclude_current) ==
    LET end          == DateOrd(end_date)
        start_offset == IF exclude_current THEN 1 ELSE 0
    IN  [k \in 1..(IF days > 0 THEN days ELSE 0) |->
            DateStr(end - (start_offset + k - 1))]

-----------------------------------------------------------------------------
(* HistorySummarizer._extract_stats and _extract_human_notes *)

\* int(line.split(":")[1].split("条")[0].strip().replace("**", "")),
\* -1 when the expression raises
StatValue(line) ==
    LET fields == Split(line, <<":">>) IN
    IF Len(fields) < 2 THEN -1
    ELSE ParseInt(Replace(Strip(Split(fields[2], <<Tiao>>)[1]), <<"**">>, <<>>))

\* the field a line assigns: the first of the three keys the line contains
\* (if / elif / elif), None when it contains none of them
StatField(line) ==
    IF Contains(line, <<TotalKey>>) THEN "total_items"
    ELSE IF Contains(line, <<HotKey>>) THEN "hotlist"
    ELSE IF Contains(line, <<RssKey>>) THEN "rss"
    ELSE None

\* the value of a field after the loop over the lines: the number of the last
\* line that assigns the field; a line whose number does not parse assigns
\* nothing (except: pass), and 0 is the value the field starts with
StatAfterLines(lines, field) ==
    LET assigning == {k \in 1..Len(lines) :
                         StatField(lines[k]) = field /\ StatValue(lines[k]) >= 0}
    IN  IF assigning = {} THEN 0
        ELSE StatValue(lines[CHOOSE k \in assigning : \A j \in assigning : j <= k])

ExtractStats(content) ==
    LET lines == Split(content, <<NL>>)
    IN  [total_items |-> StatAfterLines(lines, "total_items"),
         hotlist     |-> StatAfterLines(lines, "hotlist"),
         rss         |-> StatAfterLines(lines, "rss")]

ExtractHumanNotes(content) ==
    IF ~Contains(content, NotesMarker) THEN <<>>
    ELSE LET parts == Split(content, NotesMarker) IN
         IF Len(parts) < 2 THEN <<>>
         ELSE LET notes_section == Split(parts[2], ImpMarker)[1]
                  notes == Strip(Replace(Replace(notes_section, <<"<!--">>, <<>>),
                                         <<"-->">>, <<>>))
              IN  IF Contains(notes, <<NotesPrompt>>) THEN <<>> ELSE notes

-----------------------------------------------------------------------------
(* HistorySummarizer._summarize_topic_history *)

\* history_items: the dates with a record whose total_items is positive
\* history_items with every record found, whatever its total
RECURSIVE HistoryItemsOfAllRecords(_, _)
HistoryItemsOfAllRecords(topic_id, dates) ==
    IF dates = <<>> THEN <<>>
    ELSE LET content == read_topic_file(topic_id, Head(dates))
             rest    == HistoryItemsOfAllRecords(topic_id, Tail(dates))
         IN  IF content.found /\ content.text # <<>>
             THEN <<[date |-> Head(dates), stats |-> ExtractStats(content.text),
                     human_notes |-> ExtractHumanNotes(content.text)]>> \o rest
             ELSE rest

RECURSIVE HistoryItems(_, _)
HistoryItems(topic_id, dates) ==
    IF dates = <<>> THEN <<>>
    ELSE LET content == read_topic_file(topic_id, Head(dates))
             stats   == ExtractStats(content.text)
             rest    == HistoryItems(topic_id, Tail(dates))
         IN  IF content.found /\ content.text # <<>> /\ stats.total_items > 0
             THEN <<[date |-> Head(dates), stats |-> stats,
                     human_notes |-> ExtractHumanNotes(content.text)]>> \o rest
             ELSE rest

\* the display name: from the title line of the first qualifying record
HistoryTopicName(topic_id, history_items) ==
    LET first_content == read_topic_file(topic_id, history_items[1].date) IN
    IF first_content.found /\ first_content.text # <<>>
       /\ Head(first_content.text) = "#"
    THEN LET first_line == Split(first_content.text, <<NL>>)[1] IN
         IF Contains(first_line, <<" - ">>)
         THEN Strip(Replace(Split(first_line, <<" - ">>)[1], <<"#">>, <<>>))
         ELSE <<topic_id>>
    ELSE <<topic_id>>

\* "**<date>**: <n>条 (热榜<h>, RSS<r>)", and the notes excerpt when there are notes
HistoryLines(item) ==
    << <<"**", item.date, "**", ":", " ", NumStr(item.stats.total_items), Tiao,
         " (", "hot", NumStr(item.stats.hotlist), ", ", "RSS",
         NumStr(item.stats.rss), ")">> >>
    \o (IF item.human_notes # <<>>
        THEN << <<"  > ", "note", ":", " ">> \o TakeChars(item.human_notes, 100)
                  \o (IF CharLen(item.human_notes) > 100 THEN <<"...">> ELSE <<>>) >>
        ELSE <<>>)

\* the topic's display name and the lines of its subsection; some is FALSE
\* for the None returned when no date qualifies
TopicSummary(topic_id, history_items) ==
    IF history_items = <<>>
    THEN [some |-> FALSE, topic_name |-> <<>>, content |-> <<>>, dates |-> <<>>]
    ELSE [some |-> TRUE,
          topic_name |-> HistoryTopicName(topic_id, history_items),
          content |-> Join(Flatten([i \in 1..Len(history_items) |->
                                        HistoryLines(history_items[i])]), <<NL>>),
          dates |-> [i \in 1..Len(history_items) |-> history_items[i].date]]

SummarizeTopicHistory(topic_id, dates) ==
    TopicSummary(topic_id, HistoryItems(topic_id, dates))

-----------------------------------------------------------------------------
(* HistorySummarizer.get_recent_summaries *)

\* int(max_tokens * 1.5)
MaxChars(max_tokens) ==
    IF max_tokens >= 0 THEN (3 * max_tokens) \div 2
    ELSE -((3 * (-max_tokens)) \div 2)

\* "### <topic_name>\n\n<content>\n"
SummaryText(topic_summary) ==
    H3 \o topic_summary.topic_name \o <<NL, NL>> \o topic_summary.content \o <<NL>>

\* a charge that appends the notice and lets the loop go on
ChargeWithoutBreak(acc, topic_id, dates, summary_text, max_chars) ==
    IF acc.total_chars + CharLen(summary_text) > max_chars
    THEN [acc EXCEPT !.summaries = @ \o <<TruncationNotice>>]
    ELSE [acc EXCEPT !.summaries = @ \o <<summary_text>>,
                     !.total_chars = @ + CharLen(summary_text),
                     !.parts = @ \o <<[topic_id |-> topic_id, dates |-> dates]>>]

\* one subsection charged against the budget: over it, the notice is
\* appended and the loop is left (truncated); within it, the subsection is
\* appended and counted
Charge(acc, topic_id, dates, summary_text, max_chars) ==
    IF acc.total_chars + CharLen(summary_text) > max_chars
    THEN [acc EXCEPT !.summaries = @ \o <<TruncationNotice>>,
                     !.truncated = TRUE]
    ELSE [acc EXCEPT !.summaries = @ \o <<summary_text>>,
                     !.total_chars = @ + CharLen(summary_text),
                     !.parts = @ \o <<[topic_id |-> topic_id, dates |-> dates]>>]

\* the body of the loop for one topic directory: nothing when no date qualifies
AfterTopic(acc, topic_id, topic_summary, max_chars) ==
    IF ~topic_summary.some THEN acc
    ELSE Charge(acc, topic_id, topic_summary.dates, SummaryText(topic_summary),
                max_chars)

\* the loop over the topic directories, from directory number i on, left at
\* the break; acc: summaries, total_chars, the subsections included
RECURSIVE Accumulate(_, _, _, _, _)
Accumulate(order, i, dates, max_chars, acc) ==
    IF i > Len(order) \/ acc.truncated THEN acc
    ELSE Accumulate(order, i + 1, dates, max_chars,
             AfterTopic(acc, order[i], SummarizeTopicHistory(order[i], dates),
                        max_chars))

\* "## 📊 最近<n>天同主题历史\n\n> 时间范围: <last> 至 <first>\n\n"
DigestHeader(dates) ==
    H2 \o <<"recent", NumStr(Len(dates)), "days-history", NL, NL>>
       \o <<"> ", "range", ":", " ", dates[Len(dates)], " ", "zhi", " ", dates[1], NL, NL>>

\* the run of get_recent_summaries, the directories iterated in `order`
Returned(days, current_date, max_tokens, order, dates, acc, base_exists) ==
    [called |-> TRUE, days |-> days, current_date |-> current_date, max_tokens |-> max_tokens,
     order |-> order, dates |-> dates, parts |-> acc.parts,
     truncated |-> acc.truncated, base_exists |-> base_exists,
     text |-> IF dates = <<>> \/ acc.summaries = <<>> THEN <<>>
              ELSE DigestHeader(dates) \o Join(acc.summaries, <<NL>>)]

\* base_exists: the base directory is still there (it is created by
\* TopicStorage.__init__; without it the loop is not entered)
RecentSummaries(days, current_date, max_tokens, order, base_exists) ==
    LET dates == GetDateRange(current_date, days, TRUE)
        none  == [summaries |-> <<>>, total_chars |-> 0,
                  parts |-> <<>>, truncated |-> FALSE]
    IN  Returned(days, current_date, max_tokens, order, dates,
                 IF base_exists
                 THEN Accumulate(order, 1, dates, MaxChars(max_tokens), none)
                 ELSE none,
                 base_exists)

\* the orders in which iterdir() may list a set of directories
Orders(ds) ==
    {o \in [1..Cardinality(ds) -> ds] : \A i, j \in DOMAIN o : i # j => o[i] # o[j]}

\* one call in a behaviour: the digest is a function of the store and of the
\* arguments, and the call leaves the store as it is
get_recent_summaries ==
    /\ ~digest.called
    /\ \E days \in 0..MaxDays, current_date \in {"2026-02-02", "2026-02-03"},
          max_tokens \in {0, 55, 3000}, order \in Orders(dirs),
          base_exists \in IF dirs = {} THEN BOOLEAN ELSE {TRUE} :
        /\ digest' = RecentSummaries(days, current_date, max_tokens, order,
                                     base_exists)
        /\ last' = Op("summarize", None, None, <<>>, FALSE, FALSE, <<>>, FALSE)
        /\ UNCHANGED <<files, dirs, nops, mt, cl, tl>>

-----------------------------------------------------------------------------
(* The archive the summarizer reads: records written by earlier saves *)

\* what the record of (topic_id, date) may be: absent (<<>>), or a saved
\* record, with or without notes a human added: notes written beneath the
\* placeholder comment, notes of 102 characters, or short notes in its place
RecordChoices(topic_id, date) ==
    IF topic_id = "ai-tech"
    THEN { <<>>,
           GenerateMarkdown(date, TopicName(topic_id), <<>>),
           GenerateMarkdown(date, TopicName(topic_id), <<ItemH1>>),
           WithNotes(GenerateMarkdown(date, TopicName(topic_id), <<ItemR2, ItemH1>>),
                     IF date = "2026-01-31" THEN Placeholder \o <<NL, "N1">>
                     ELSE IF date = "2026-02-02" THEN <<"x100", "N1">>
                     ELSE <<"N1">>) }
    ELSE { <<>>, GenerateMarkdown(date, TopicName(topic_id), <<ItemH1>>) }

\* the records an archive holds, <<>> standing for an absent file
Stored(store) == [k \in {x \in DOMAIN store : store[x] # <<>>} |-> store[k]]

InitDigest ==
    /\ \E a1 \in RecordChoices("ai-tech", "2026-01-31"),
          a2 \in RecordChoices("ai-tech", "2026-02-01"),
          a3 \in RecordChoices("ai-tech", "2026-02-02"),
          f2 \in RecordChoices("finance", "2026-02-01"),
          f3 \in RecordChoices("finance", "2026-02-02") :
          files = Stored(
              (<<"ai-tech", "2026-01-31">> :> a1) @@ (<<"ai-tech", "2026-02-01">> :> a2)
              @@ (<<"ai-tech", "2026-02-02">> :> a3)
              @@ (<<"finance", "2026-02-01">> :> f2) @@ (<<"finance", "2026-02-02">> :> f3))
    /\ dirs = {k[1] : k \in DOMAIN files}
    /\ last = NoOp
    /\ digest = NoDigest
    /\ nops = 0
    /\ mt = NoMatch
    /\ cl = NoClassify
    /\ tl = NoTimeline

NextDigest == get_recent_summaries

SpecDigest == InitDigest /\ [][NextDigest]_vars

-----------------------------------------------------------------------------
(* Claims about get_recent_summaries *)

\* the subsections of a digest: what follows each "### "
Subsections(text) ==
    LET parts == Split(text, H3) IN [k \in 1..(Len(parts) - 1) |-> parts[k + 1]]

\* the subsection is the one of the topic: it starts with the display name
IsSubsectionOf(sub, topic_id) ==
    MatchAt(sub, TopicName(topic_id) \o <<NL>>, 1)

\* the position of the date line of d in a subsection, 0 when it has none
DateLineAt(sub, d) == Find(sub, <<"**", d, "**", ":">>)

\* one of the subsections has a date line for (topic_id, d)
HasDateLine(subs, topic_id, d) ==
    \E k \in 1..Len(subs) :
        /\ IsSubsectionOf(subs[k], topic_id)
        /\ DateLineAt(subs[k], d) > 0

\* d is one of the `days` calendar dates strictly before current_date
InWindow(d, current_date, days) ==
    /\ DateOrd(current_date) - DateOrd(d) >= 1
    /\ DateOrd(current_date) - DateOrd(d) <= days

\* the archive has a record of (topic_id, d) reporting a positive total
Qualifies(topic_id, d) ==
    /\ <<topic_id, d>> \in DOMAIN files
    /\ LET block == StatsBlock(files[<<topic_id, d>>])
       IN  \E n \in 1..9 : Contains(block, StatLine(TotalKey, n))

CalendarDates == {Calendar[i] : i \in 1..Len(Calendar)}

\* the budget was exceeded: the digest carries the truncation notice
BudgetExceeded(text) == Contains(text, <<NoticeText>>)

(* C4: whatever max_tokens, days and the archive, the string returned by
   get_recent_summaries is no longer than max_tokens x 1.5 plus the length
   of one truncation-notice line. *)
C4_TokenBudget ==
    digest.called =>
        2 * CharLen(digest.text)
            <= 3 * digest.max_tokens + 2 * CharLen(TruncationNotice)

(* C9: when the budget is not exceeded, the digest has a date line for
   (topic, d) exactly when d is one of the `days` dates strictly before
   current_date and the record of (topic, d) exists with a positive total;
   within a topic the date lines are in descending date order. *)
C9_SummarizerWindow ==
    (digest.called /\ ~BudgetExceeded(digest.text)) =>
        LET subs == Subsections(digest.text) IN
        /\ \A topic_id \in Topics, d \in CalendarDates :
              HasDateLine(subs, topic_id, d)
                  <=> ( /\ InWindow(d, digest.current_date, digest.days)
                        /\ Qualifies(topic_id, d) )
        /\ \A k \in 1..Len(subs) : \A d1, d2 \in CalendarDates :
              ( /\ DateLineAt(subs[k], d1) > 0 /\ DateLineAt(subs[k], d2) > 0
                /\ DateOrd(d1) > DateOrd(d2) )
              => DateLineAt(subs[k], d1) < DateLineAt(subs[k], d2)

\* a two-day window before 2026-02-02 with both days qualifying for a
\* topic that also has a record dated 2026-02-02
C9_Witness ==
    /\ digest.called /\ ~BudgetExceeded(digest.text)
    /\ digest.current_date = "2026-02-02" /\ digest.days = 2
    /\ Qualifies("ai-tech", "2026-02-02")
    /\ HasDateLine(Subsections(digest.text), "ai-tech", "2026-02-01")
    /\ HasDateLine(Subsections(digest.text), "ai-tech", "2026-01-31")
    /\ ~HasDateLine(Subsections(digest.text), "finance", "2026-02-01")
    /\ <<"finance", "2026-02-02">> \in DOMAIN files

\* the topic has a record with a positive total on a date of the window
HasQualifyingDate(topic_id) ==
    \E d \in CalendarDates :
        InWindow(d, digest.current_date, digest.days) /\ Qualifies(topic_id, d)

(* C12: a topic with no date in the window whose record exists with a
   positive total has no subsection in the digest, not even its header;
   when no topic has such a date the returned string is empty, and so it is
   when days <= 0 or the base directory does not exist. *)
C12_EmptyDigest ==
    digest.called =>
        /\ \A topic_id \in Topics :
              ~HasQualifyingDate(topic_id)
                  => ~Contains(digest.text, H3 \o TopicName(topic_id))
        /\ (\A topic_id \in Topics : ~HasQualifyingDate(topic_id))
              => digest.text = <<>>
        /\ (digest.days <= 0 \/ ~digest.base_exists) => digest.text = <<>>

\* a digest with a subsection for finance and none for ai-tech, whose only
\* record in the window reports no item
C12_Witness ==
    /\ digest.called /\ digest.days = 1 /\ digest.current_date = "2026-02-02"
    /\ <<"ai-tech", "2026-02-01">> \in DOMAIN files
    /\ ~HasQualifyingDate("ai-tech")
    /\ HasQualifyingDate("finance")
    /\ Contains(digest.text, H3 \o TopicName("finance"))
    /\ ~Contains(digest.text, H3 \o TopicName("ai-tech"))

\* the complete subsections of the qualifying topics, in iteration order
QualifyingSubsections ==
    LET IsQualifying(topic_id) == HasQualifyingDate(topic_id)
        qualifying == SelectSeq(digest.order, IsQualifying)
    IN  [i \in 1..Len(qualifying) |->
            SummaryText(SummarizeTopicHistory(qualifying[i], digest.dates))]

\* the first n subsections together stay within max_tokens x 1.5
Fits(subs, n, max_tokens) ==
    2 * CharLen(Flatten(SubSeq(subs, 1, n))) <= 3 * max_tokens

\* how many subsections precede the first one that exceeds the budget
IncludedCount(subs, max_tokens) ==
    CHOOSE n \in 0..Len(subs) :
        /\ \A m \in 0..n : Fits(subs, m, max_tokens)
        /\ n < Len(subs) => ~Fits(subs, n + 1, max_tokens)

(* C15: the digest's elements are the complete subsections of the
   qualifying topics in iteration order up to the first one that would take
   the running total over max_tokens x 1.5; in the place of that one stands a
   single truncation notice, which is the last element, and no later
   subsection follows it even if it would fit; without such a topic there
   is no notice. *)
C15_Truncation ==
    digest.called =>
        LET subs     == QualifyingSubsections
            n        == IncludedCount(subs, digest.max_tokens)
            elements == SubSeq(subs, 1, n)
                        \o (IF n < Len(subs) THEN <<TruncationNotice>> ELSE <<>>)
        IN  IF subs = <<>> THEN digest.text = <<>>
            ELSE digest.text = DigestHeader(digest.dates) \o Join(elements, <<NL>>)

\* the first topic's subsection exceeds the budget and the second one, which
\* alone would fit, is left out
C15_Witness ==
    /\ digest.called /\ digest.order = <<"ai-tech", "finance">>
    /\ Len(QualifyingSubsections) = 2
    /\ ~Fits(QualifyingSubsections, 1, digest.max_tokens)
    /\ Fits(SubSeq(QualifyingSubsections, 2, 2), 1, digest.max_tokens)
    /\ digest.text = DigestHeader(digest.dates) \o TruncationNotice

\* the text a human added to the human-notes region of a record: the region
\* without the placeholder comment
HumanText(content) == Strip(Replace(NotesRegion(content), Placeholder, <<>>))

\* the line that follows the date line of d in a subsection, <<>> when the
\* date line is the last one
LineAfterDateLine(sub, d) ==
    LET lines == Split(SubSeq(sub, DateLineAt(sub, d), Len(sub)), <<NL>>)
    IN  IF Len(lines) < 2 THEN <<>> ELSE lines[2]

\* "  > 备注: " and the first 100 characters of the notes, with "..." when
\* the notes are longer
ExcerptLine(notes) ==
    <<"  > ", "note", ":", " ">> \o TakeChars(notes, 100)
        \o (IF CharLen(notes) > 100 THEN <<"...">> ELSE <<>>)

(* C16: in every subsection of the digest, the date line of a record whose
   human-notes region holds text a human added (in the place of the
   placeholder comment or beneath it) is followed by the excerpt line of
   that text: its first 100 characters, with an ellipsis exactly when it is
   longer; the date line of a record without human text is not followed by
   an excerpt line. *)
C16_NotesExcerpt ==
    digest.called =>
        LET subs == Subsections(digest.text) IN
        \A k \in 1..Len(subs), topic_id \in Topics, d \in CalendarDates :
            (IsSubsectionOf(subs[k], topic_id) /\ DateLineAt(subs[k], d) > 0) =>
                LET notes == HumanText(files[<<topic_id, d>>])
                    line  == LineAfterDateLine(subs[k], d)
                IN  IF notes # <<>> THEN line = ExcerptLine(notes)
                    ELSE ~MatchAt(line, <<"  > ", "note">>, 1)

\* everything between the two section markers, blank lines included
WholeNotesRegion(content) ==
    Split(Split(content, NotesMarker)[2], ImpMarker)[1]

(* C17: an append-mode save over a record whose human-notes region is
   exactly the placeholder comment writes the human-notes region a fresh
   record has, with the placeholder once in the record, and the summarizer
   extracts no notes from the record, before the save and after it. *)
C17_PlaceholderNotContent ==
    ( /\ last.op = "save" /\ last.append /\ last.existed
      /\ NotesRegion(last.before) = Placeholder )
    => /\ WholeNotesRegion(LastFile)
            = WholeNotesRegion(GenerateMarkdown(last.date, <<>>, last.items))
       /\ CountOcc(LastFile, <<NotesPrompt>>) = 1
       /\ ExtractHumanNotes(last.before) = <<>>
       /\ ExtractHumanNotes(LastFile) = <<>>

\* an append-mode save of other items over a record with items whose
\* notes region was left as generated
C17_Witness ==
    /\ last.op = "save" /\ last.append /\ last.existed
    /\ NotesRegion(last.before) = Placeholder
    /\ last.items # <<>>
    /\ DerivedBody(last.before) # DerivedBody(LastFile)
    /\ NotesRegion(LastFile) = Placeholder

-----------------------------------------------------------------------------
(* TopicRouter.match_keywords (topic-layer/router.py)                      *)
(* Here a text is a sequence of characters, each a one-character token.    *)

\* largest length of a text given to the matcher
MaxText == 3
\* largest length of a keyword
MaxKeyword == 2

CJK == "Zh"                           \* a CJK character, such as 中

\* the characters of the texts and of the keywords
TextChars    == {"a", "A", "w", "+", " ", CJK}
KeywordChars == {"a", "A", "w", "+", CJK}

\* str.lower() of one character
LowerChar(c) ==
    IF c = "A" THEN "a" ELSE IF c = "W" THEN "w" ELSE IF c = "N" THEN "n" ELSE c

\* str.lower()
Lower(text) == [i \in 1..Len(text) |-> LowerChar(text[i])]

\* the class \w of a str pattern: letters, digits and "_" of any script
IsWordChar(c) == c \in {"a", "A", "w", "W", "N", "n", "o", "e", CJK}

\* \b at position i: between text[i-1] and text[i], the outside of the
\* text counting as a non-word character
WordBoundary(text, i) ==
    LET before == i > 1 /\ IsWordChar(text[i - 1])
        after  == i <= Len(text) /\ IsWordChar(text[i])
    IN  before # after

\* re.search(r'\b' + re.escape(keyword_lower) + r'\b', text_lower)
ReSearch(keyword_lower, text_lower) ==
    \E i \in 1..(Len(text_lower) - Len(keyword_lower) + 1) :
        /\ WordBoundary(text_lower, i)
        /\ MatchAt(text_lower, keyword_lower, i)
        /\ WordBoundary(text_lower, i + Len(keyword_lower))

\* the loop over the keywords, from keyword number i on
RECURSIVE MatchFrom(_, _, _)
MatchFrom(text_lower, keywords, i) ==
    IF i > Len(keywords) THEN FALSE
    ELSE IF ReSearch(Lower(keywords[i]), text_lower) THEN TRUE
    ELSE MatchFrom(text_lower, keywords, i + 1)

MatchKeywords(text, keywords) == MatchFrom(Lower(text), keywords, 1)

\* sequences over a set, of the lengths lo..hi
SeqsOf(S, lo, hi) == UNION {[1..n -> S] : n \in lo..hi}

Texts    == SeqsOf(TextChars, 0, MaxText)
Keywords == SeqsOf(KeywordChars, 0, MaxKeyword)

\* keyword lists: none, one keyword, or a keyword followed by "a"
KeywordLists ==
    {<<>>} \cup {<<k>> : k \in Keywords} \cup {<<k, <<"a">>>> : k \in Keywords}

match_keywords ==
    /\ ~mt.run
    /\ mt' = [mt EXCEPT !.run = TRUE,
                        !.result = MatchKeywords(mt.text, mt.keywords)]
    /\ UNCHANGED <<files, dirs, last, digest, nops, cl, tl>>

InitMatch ==
    /\ \E text \in Texts, keywords \in KeywordLists :
          mt = [run |-> FALSE, text |-> text, keywords |-> keywords, result |-> FALSE]
    /\ files = <<>>
    /\ dirs = {}
    /\ last = NoOp
    /\ digest = NoDigest
    /\ nops = 0
    /\ cl = NoClassify
    /\ tl = NoTimeline

NextMatch == match_keywords

SpecMatch == InitMatch /\ [][NextMatch]_vars

-----------------------------------------------------------------------------
(* The matcher contract: whole-token, case-insensitive containment *)

\* character classes of the boundary rule: CJK, alphanumeric, other
CharClass(c) ==
    IF c = CJK THEN "cjk"
    ELSE IF c \in {"a", "A", "w", "W"} THEN "alnum"
    ELSE "other"

\* keyword occurs in text at position i, compared case-insensitively
OccursAt(text, keyword, i) == MatchAt(Lower(text), Lower(keyword), i)

Positions(text, keyword) ==
    {i \in 1..(Len(text) - Len(keyword) + 1) : OccursAt(text, keyword, i)}

\* the occurrence at i has, on its left, the string edge, a non-word
\* character or a character of another class than the keyword's first
OpenLeft(text, keyword, i) ==
    \/ i = 1
    \/ CharClass(text[i - 1]) = "other"
    \/ CharClass(text[i - 1]) # CharClass(keyword[1])

\* the same on its right, against the keyword's last character
OpenRight(text, keyword, i) ==
    LET j == i + Len(keyword) IN
    \/ j = Len(text) + 1
    \/ CharClass(text[j]) = "other"
    \/ CharClass(text[j]) # CharClass(keyword[Len(keyword)])

\* keyword occurs in text bounded on both sides
BoundedOccurrence(text, keyword) ==
    \E i \in Positions(text, keyword) :
        OpenLeft(text, keyword, i) /\ OpenRight(text, keyword, i)

\* the occurrence at i is inside a larger alphanumeric token: a letter or
\* digit of the keyword's edge is next to another letter or digit
InsideToken(text, keyword, i) ==
    LET j == i + Len(keyword) IN
    \/ i > 1 /\ CharClass(text[i - 1]) = "alnum" /\ CharClass(keyword[1]) = "alnum"
    \/ j <= Len(text) /\ CharClass(text[j]) = "alnum"
           /\ CharClass(keyword[Len(keyword)]) = "alnum"

\* keyword occurs in text, and only inside larger tokens
OnlyInsideTokens(text, keyword) ==
    /\ Positions(text, keyword) # {}
    /\ \A i \in Positions(text, keyword) : InsideToken(text, keyword, i)

\* every character of the keyword is a CJK character
IsCJKKeyword(keyword) ==
    keyword # <<>> /\ \A i \in 1..Len(keyword) : CharClass(keyword[i]) = "cjk"

\* the occurrence at i has no whitespace next to it: a CJK character, a
\* letter or a digit on each side where the text goes on
Embedded(text, keyword, i) ==
    LET j == i + Len(keyword) IN
    /\ i > 1 \/ j <= Len(text)
    /\ i > 1 => CharClass(text[i - 1]) \in {"cjk", "alnum"}
    /\ j <= Len(text) => CharClass(text[j]) \in {"cjk", "alnum"}

(* C5: a keyword that occurs in the text with a non-word character, a
   string edge or a change of script class on both sides is matched; a
   keyword that occurs only inside larger tokens is not; also for keywords
   that begin or end with a non-word character. *)
C5_WholeTokenMatching ==
    (mt.run /\ Len(mt.keywords) = 1 /\ mt.keywords[1] # <<>>) =>
        /\ BoundedOccurrence(mt.text, mt.keywords[1]) => mt.result
        /\ OnlyInsideTokens(mt.text, mt.keywords[1]) => ~mt.result

(* C6: a CJK keyword that occurs in the text directly next to CJK
   characters or to letters or digits, with no whitespace around it, is
   matched. *)
C6_CJKMatching ==
    (mt.run /\ Len(mt.keywords) = 1 /\ IsCJKKeyword(mt.keywords[1])) =>
        ( (\E i \in Positions(mt.text, mt.keywords[1]) :
               Embedded(mt.text, mt.keywords[1], i))
          => mt.result )

(* C20: an empty keyword never matches: match_keywords returns what it
   returns for the list without its empty keywords, and false when every
   keyword of the list is empty, whatever the text. *)
C20_EmptyKeyword ==
    mt.run =>
        LET NonEmpty(keyword) == keyword # <<>>
        IN  mt.result = MatchKeywords(mt.text, SelectSeq(mt.keywords, NonEmpty))

-----------------------------------------------------------------------------
(* trendradar.core.frequency._word_matches: the matcher of the classifier, *)
(* as the matcher contract describes it                                    *)

\* keyword is not empty and occurs in title, compared case-insensitively,
\* bounded on both sides; a CJK character of the keyword needs no delimiter
WordMatches(title, keyword) ==
    /\ keyword # <<>>
    /\ \E i \in Positions(title, keyword) :
          /\ OpenLeft(title, keyword, i) \/ CharClass(keyword[1]) = "cjk"
          /\ OpenRight(title, keyword, i) \/ CharClass(keyword[Len(keyword)]) = "cjk"

-----------------------------------------------------------------------------
(* TopicClassifier._match_topics and classify (classifier.py)              *)
(* A dict is a sequence of its entries in iteration order; the mapping     *)
(* classify returns is the sequence of its buckets, [topic_id, items].     *)

\* largest number of titles under one source or feed
MaxTitles == 2

\* a keyword of the topic matches the title, scanning every keyword
RECURSIVE KeywordHits(_, _, _)
KeywordHits(title, keywords, i) ==
    IF i > Len(keywords) THEN 0
    ELSE (IF WordMatches(title, keywords[i]) THEN 1 ELSE 0)
         + KeywordHits(title, keywords, i + 1)

\* _match_topics without the break: the id once for every keyword that matches
RECURSIVE MatchTopicsNoBreak(_, _)
MatchTopicsNoBreak(topics, title) ==
    IF topics = <<>> THEN <<>>
    ELSE [k \in 1..KeywordHits(title, Head(topics).keywords, 1) |-> Head(topics).id]
         \o MatchTopicsNoBreak(Tail(topics), title)

\* the loop over the keywords of one topic, left at the first match
RECURSIVE AnyKeyword(_, _, _)
AnyKeyword(title, keywords, i) ==
    IF i > Len(keywords) THEN FALSE
    ELSE IF WordMatches(title, keywords[i]) THEN TRUE
    ELSE AnyKeyword(title, keywords, i + 1)

\* matched: the ids of the topics that match the title, in topic order
RECURSIVE MatchTopics(_, _)
MatchTopics(topics, title) ==
    IF topics = <<>> THEN <<>>
    ELSE (IF AnyKeyword(title, Head(topics).keywords, 1)
          THEN <<Head(topics).id>> ELSE <<>>)
         \o MatchTopics(Tail(topics), title)

\* the item classify builds for a hotlist title
HotlistItem(source_id, title, title_data) ==
    [title |-> title, source_type |-> "hotlist", source_id |-> source_id,
     url |-> Get(title_data, "url", ""),
     mobile_url |-> Get(title_data, "mobileUrl", ""),
     ranks |-> Get(title_data, "ranks", <<>>),
     count |-> Get(title_data, "count", 1),
     first_time |-> Get(title_data, "first_time", ""),
     last_time |-> Get(title_data, "last_time", "")]

\* the item classify builds for an RSS title
RssItem(feed_id, title, item_data) ==
    [title |-> title, source_type |-> "rss", source_id |-> feed_id,
     url |-> Get(item_data, "url", ""),
     published_at |-> Get(item_data, "published_at", ""),
     summary |-> Get(item_data, "summary", ""),
     author |-> Get(item_data, "author", "")]

\* results[topic_id].append(item), the bucket created when it is not there
AppendItem(results, topic_id, item) ==
    IF \E b \in 1..Len(results) : results[b].topic_id = topic_id
    THEN [b \in 1..Len(results) |->
            IF results[b].topic_id = topic_id
            THEN [results[b] EXCEPT !.items = Append(@, item)]
            ELSE results[b]]
    ELSE Append(results, [topic_id |-> topic_id, items |-> <<item>>])

\* for topic_id in matched_topics: append the item
RECURSIVE AppendToMatched(_, _, _)
AppendToMatched(results, matched_topics, item) ==
    IF matched_topics = <<>> THEN results
    ELSE AppendToMatched(AppendItem(results, Head(matched_topics), item),
                         Tail(matched_topics), item)

\* the loop over the titles of one source or feed
RECURSIVE ClassifyTitles(_, _, _, _, _)
ClassifyTitles(results, topics, source_type, source_id, titles) ==
    IF titles = <<>> THEN results
    ELSE LET title == Head(titles).title
             data  == Head(titles).data
             item  == IF source_type = "hotlist"
                      THEN HotlistItem(source_id, title, data)
                      ELSE RssItem(source_id, title, data)
         IN  ClassifyTitles(AppendToMatched(results, MatchTopics(topics, title), item),
                            topics, source_type, source_id, Tail(titles))

\* the loop over the sources or feeds
RECURSIVE ClassifySources(_, _, _, _)
ClassifySources(results, topics, source_type, sources) ==
    IF sources = <<>> THEN results
    ELSE ClassifySources(
             ClassifyTitles(results, topics, source_type,
                            Head(sources).source_id, Head(sources).titles),
             topics, source_type, Tail(sources))

\* classify with the RSS data processed before the hotlist news
ClassifyRssFirst(topics, news_items, rss_items) ==
    IF topics = <<>> THEN <<>>
    ELSE ClassifySources(ClassifySources(<<>>, topics, "rss", rss_items),
                         topics, "hotlist", news_items)

\* the mapping classify returns
Classify(topics, news_items, rss_items) ==
    IF topics = <<>> THEN <<>>
    ELSE ClassifySources(ClassifySources(<<>>, topics, "hotlist", news_items),
                         topics, "rss", rss_items)

\* loaded topics: ids are unique keys
Topic(id, name, keywords) ==
    [id |-> id, name |-> name, keywords |-> keywords, description |-> "", priority |-> 999]

TopicAI  == Topic("ai-tech", "AI", << <<"a">> >>)
TopicAI2 == Topic("ai-tech", "AI", << <<"a">>, <<"+">>, <<"A">> >>)
TopicFin == Topic("finance", "Fin", << <<"w">> >>)

TopicLists ==
    { <<>>, <<TopicAI>>, <<TopicAI2>>, <<TopicAI, TopicFin>>, <<TopicFin, TopicAI2>> }

\* titles: of ai-tech, of finance, of both, of none
Titles == { <<"a">>, <<"w">>, <<"A", " ", "w">>, <<"w", "a">> }

\* the data under a title
TitleData(title) ==
    IF title = <<"a">>
    THEN [url |-> "http://x/1", ranks |-> <<1>>, count |-> 2,
          first_time |-> "09:00", last_time |-> "10:00"]
    ELSE <<>>

\* the entries of one inner dict: up to n distinct titles, in any order
TitleSeqs(n) ==
    {ts \in SeqsOf(Titles, 0, n) : \A i, j \in DOMAIN ts : i # j => ts[i] # ts[j]}

Source(source_id, ts) ==
    [source_id |-> source_id,
     titles |-> [i \in 1..Len(ts) |-> [title |-> ts[i], data |-> TitleData(ts[i])]]]

\* news_items: no source, one source, or two sources
NewsChoices ==
    {<<>>} \cup {<<Source("src1", ts)>> : ts \in TitleSeqs(MaxTitles)}
           \cup {<<Source("src1", ts), Source("src2", ts2)>> :
                    ts \in TitleSeqs(MaxTitles), ts2 \in TitleSeqs(1)}

\* rss_items: None or empty, or one feed
RssChoices ==
    {<<>>} \cup {<<Source("feed1", ts)>> : ts \in TitleSeqs(MaxTitles)}

classify ==
    /\ ~cl.run
    /\ cl' = [cl EXCEPT !.run = TRUE,
                        !.result = Classify(cl.topics, cl.news_items, cl.rss_items)]
    /\ UNCHANGED <<files, dirs, last, digest, nops, mt, tl>>

InitClassify ==
    /\ \E topics \in TopicLists, news_items \in NewsChoices, rss_items \in RssChoices :
          cl = [run |-> FALSE, topics |-> topics, news_items |-> news_items,
                rss_items |-> rss_items, result |-> <<>>]
    /\ files = <<>>
    /\ dirs = {}
    /\ last = NoOp
    /\ digest = NoDigest
    /\ nops = 0
    /\ mt = NoMatch
    /\ tl = NoTimeline

NextClassify == classify

SpecClassify == InitClassify /\ [][NextClassify]_vars

-----------------------------------------------------------------------------
(* Claims about classify *)

\* the input items in iteration order: (source_type, source_id, title)
RECURSIVE InputKeys(_, _)
InputKeys(source_type, sources) ==
    IF sources = <<>> THEN <<>>
    ELSE [i \in 1..Len(Head(sources).titles) |->
            [source_type |-> source_type, source_id |-> Head(sources).source_id,
             title |-> Head(sources).titles[i].title]]
         \o InputKeys(source_type, Tail(sources))

InputOrder == InputKeys("hotlist", cl.news_items) \o InputKeys("rss", cl.rss_items)

\* at least one keyword of the topic matches the title
TopicMatches(topic, title) ==
    \E i \in 1..Len(topic.keywords) : WordMatches(title, topic.keywords[i])

\* the items of the topic's bucket, none when the mapping has no such key
Bucket(result, topic_id) ==
    IF \E b \in 1..Len(result) : result[b].topic_id = topic_id
    THEN result[CHOOSE b \in 1..Len(result) : result[b].topic_id = topic_id].items
    ELSE <<>>

KeyOf(item) ==
    [source_type |-> item.source_type, source_id |-> item.source_id, title |-> item.title]

\* how many times the bucket holds the input item
TimesIn(items, key) == Cardinality({j \in 1..Len(items) : KeyOf(items[j]) = key})

TopicOf(topic_id) == CHOOSE t \in 1..Len(cl.topics) : cl.topics[t].id = topic_id

\* the first input item the topic matches
FirstMatched(topic_id) ==
    CHOOSE k \in 1..Len(InputOrder) :
        /\ TopicMatches(cl.topics[TopicOf(topic_id)], InputOrder[k].title)
        /\ \A j \in 1..(k - 1) :
              ~TopicMatches(cl.topics[TopicOf(topic_id)], InputOrder[j].title)

(* C7: classify puts every input item into the bucket of every loaded
   topic with a matching keyword exactly once, and into no other bucket;
   no bucket of the result is empty. *)
C7_ClassifyFanOut ==
    cl.run =>
        /\ \A t \in 1..Len(cl.topics), k \in 1..Len(InputOrder) :
              TimesIn(Bucket(cl.result, cl.topics[t].id), InputOrder[k])
                  = IF TopicMatches(cl.topics[t], InputOrder[k].title) THEN 1 ELSE 0
        /\ \A b \in 1..Len(cl.result) :
              /\ cl.result[b].items # <<>>
              /\ \E t \in 1..Len(cl.topics) : cl.topics[t].id = cl.result[b].topic_id
              /\ \A c \in 1..Len(cl.result) :
                    cl.result[c].topic_id = cl.result[b].topic_id => c = b

\* an item in two buckets, an item in none, and a topic with several
\* matching keywords
C7_Witness ==
    /\ cl.run /\ cl.topics = <<TopicFin, TopicAI2>>
    /\ \E k \in 1..Len(InputOrder) :
          /\ InputOrder[k].title = <<"A", " ", "w">>
          /\ TimesIn(Bucket(cl.result, "ai-tech"), InputOrder[k]) = 1
          /\ TimesIn(Bucket(cl.result, "finance"), InputOrder[k]) = 1
    /\ \E k \in 1..Len(InputOrder) :
          /\ InputOrder[k].title = <<"w", "a">>
          /\ \A b \in 1..Len(cl.result) : TimesIn(cl.result[b].items, InputOrder[k]) = 0

(* C8: the topic ids of the mapping are in the order in which the topics
   first received an item, and the items of each bucket are in input
   order: the hotlist items, then the RSS items. *)
C8_ClassifyOrdering ==
    cl.run =>
        /\ \A b \in 1..Len(cl.result) :
              LET topic == cl.topics[TopicOf(cl.result[b].topic_id)]
                  Matched(key) == TopicMatches(topic, key.title)
              IN  [j \in 1..Len(cl.result[b].items) |-> KeyOf(cl.result[b].items[j])]
                      = SelectSeq(InputOrder, Matched)
        /\ \A b, c \in 1..Len(cl.result) :
              b < c =>
                  \/ FirstMatched(cl.result[b].topic_id) < FirstMatched(cl.result[c].topic_id)
                  \/ /\ FirstMatched(cl.result[b].topic_id)
                            = FirstMatched(cl.result[c].topic_id)
                     /\ TopicOf(cl.result[b].topic_id) < TopicOf(cl.result[c].topic_id)

\* the second topic of the configuration received an item first, and a
\* bucket holds hotlist items of two sources followed by an RSS item
C8_Witness ==
    /\ cl.run /\ cl.topics = <<TopicAI, TopicFin>>
    /\ Len(cl.result) = 2 /\ cl.result[1].topic_id = "finance"
    /\ Len(cl.result[1].items) = 3
    /\ cl.result[1].items[1].source_id = "src1"
    /\ cl.result[1].items[2].source_id = "src2"
    /\ cl.result[1].items[3].source_type = "rss"

-----------------------------------------------------------------------------
(* TopicClassifier._load_topics (classifier.py)                            *)
(* A configuration file is: missing; undecodable (bad bytes or YAML that   *)
(* does not parse); null (an empty document); a sequence at top level; or  *)
(* a mapping. An entry of the topics list is a mapping from some of the    *)
(* keys to values, or something that is no mapping.                        *)

\* largest number of entries of a topics list
MaxEntries == 2

\* the incomplete-entry test with the keywords left out
IncompleteIgnoringKeywords(topic_id, name, keywords) ==
    topic_id = "" \/ name = ""

\* not topic_id or not name or not keywords
Incomplete(topic_id, name, keywords) ==
    topic_id = "" \/ name = "" \/ keywords = <<>>

\* the loop over the entries: validated_topics
RECURSIVE ValidatedTopics(_)
ValidatedTopics(topics) ==
    IF topics = <<>> THEN <<>>
    ELSE LET topic == Head(topics) IN
         IF ~topic.is_dict THEN ValidatedTopics(Tail(topics))
         ELSE IF Incomplete(Get(topic.fields, "id", ""), Get(topic.fields, "name", ""),
                            Get(topic.fields, "keywords", <<>>))
         THEN ValidatedTopics(Tail(topics))
         ELSE << [id |-> Get(topic.fields, "id", ""),
                  name |-> Get(topic.fields, "name", ""),
                  keywords |-> Get(topic.fields, "keywords", <<>>),
                  description |-> Get(topic.fields, "description", ""),
                  priority |-> Get(topic.fields, "priority", 999)] >>
              \o ValidatedTopics(Tail(topics))

\* the body of the try block: exception is TRUE when open, yaml.safe_load,
\* data.get (data is None or a list) or the iteration of a scalar raises
TryLoadTopics(config) ==
    IF config.kind # "mapping" THEN [exception |-> TRUE, value |-> <<>>]
    ELSE IF ~config.has_topics THEN [exception |-> FALSE, value |-> <<>>]
    ELSE IF ~config.iterable THEN [exception |-> TRUE, value |-> <<>>]
    ELSE [exception |-> FALSE, value |-> ValidatedTopics(config.topics)]

\* _load_topics: [] for a missing file and for any exception
LoadTopics(config) ==
    IF config.kind = "missing" THEN <<>>
    ELSE IF TryLoadTopics(config).exception THEN <<>>
    ELSE TryLoadTopics(config).value

\* entries of a topics list
RawEntries ==
    LET Entry(fields) == [is_dict |-> TRUE, fields |-> fields] IN
    { Entry([id |-> "ai-tech", name |-> "AI", keywords |-> << <<"a">> >>,
             description |-> "d", priority |-> 1]),
      Entry([id |-> "finance", name |-> "Fin", keywords |-> << <<"w">>, <<>> >>]),
      Entry([name |-> "AI", keywords |-> << <<"a">> >>]),
      Entry([id |-> "", name |-> "AI", keywords |-> << <<"a">> >>]),
      Entry([id |-> "ai-tech", keywords |-> << <<"a">> >>]),
      Entry([id |-> "ai-tech", name |-> "", keywords |-> << <<"a">> >>]),
      Entry([id |-> "ai-tech", name |-> "AI"]),
      Entry([id |-> "ai-tech", name |-> "AI", keywords |-> <<>>]),
      [is_dict |-> FALSE, fields |-> <<>>] }

\* the configuration files
Configs ==
    LET Config(kind, has_topics, iterable, topics) ==
            [kind |-> kind, has_topics |-> has_topics, iterable |-> iterable,
             topics |-> topics]
    IN
    { Config(kind, FALSE, FALSE, <<>>) :
          kind \in {"missing", "undecodable", "null", "sequence", "mapping"} }
    \cup { Config("mapping", TRUE, FALSE, <<>>) }
    \cup { Config("mapping", TRUE, TRUE, topics) :
              topics \in SeqsOf(RawEntries, 0, MaxEntries) }

\* TopicClassifier.__init__: the topics are loaded from the configuration
InitLoad ==
    /\ \E config \in Configs,
          news_items \in { <<Source("src1", << <<"a">> >>)>>,
                           <<Source("src1", << <<"w">>, <<"a">> >>),
                             Source("src2", << <<"w">> >>)>> } :
          cl = [run |-> FALSE, topics |-> LoadTopics(config), news_items |-> news_items,
                rss_items |-> <<>>, result |-> <<>>, config |-> config]
    /\ files = <<>>
    /\ dirs = {}
    /\ last = NoOp
    /\ digest = NoDigest
    /\ nops = 0
    /\ mt = NoMatch
    /\ tl = NoTimeline

NextLoad == classify

SpecLoad == InitLoad /\ [][NextLoad]_vars

\* the entry has a non-empty id, a non-empty name and at least one keyword
Complete(entry) ==
    /\ entry.is_dict
    /\ "id" \in DOMAIN entry.fields /\ entry.fields.id # ""
    /\ "name" \in DOMAIN entry.fields /\ entry.fields.name # ""
    /\ "keywords" \in DOMAIN entry.fields /\ Len(entry.fields.keywords) >= 1

\* the entry with the two defaults filled in
Normalised(entry) ==
    [id |-> entry.fields.id, name |-> entry.fields.name,
     keywords |-> entry.fields.keywords,
     description |-> IF "description" \in DOMAIN entry.fields
                     THEN entry.fields.description ELSE "",
     priority |-> IF "priority" \in DOMAIN entry.fields
                  THEN entry.fields.priority ELSE 999]

\* the configuration is a mapping whose topics value is a list
HasTopicList(config) ==
    config.kind = "mapping" /\ config.has_topics /\ config.iterable

(* C13: the loaded topics are the complete entries of the configuration (a
   non-empty id, a non-empty name, at least one keyword), in configuration
   order, with priority 999 and description "" where the entry has none;
   a missing, null or malformed configuration gives the empty list; and
   with an empty topic list classify returns the empty mapping. *)
C13_TopicLoading ==
    /\ HasTopicList(cl.config)
          => LET complete == SelectSeq(cl.config.topics, Complete)
             IN  cl.topics = [i \in 1..Len(complete) |-> Normalised(complete[i])]
    /\ ~HasTopicList(cl.config) => cl.topics = <<>>
    /\ (cl.run /\ cl.topics = <<>>) => cl.result = <<>>

\* of two entries the incomplete one was dropped and the other one loaded
\* with the defaults, and classify ran
C13_Witness ==
    /\ cl.run /\ Len(cl.config.topics) = 2
    /\ ~Complete(cl.config.topics[1])
    /\ Len(cl.topics) = 1 /\ cl.topics[1].id = "finance"
    /\ cl.topics[1].priority = 999 /\ cl.topics[1].description = ""

-----------------------------------------------------------------------------
(* TopicRouter: the timeline file of one topic (topic-layer/router.py) *)

\* runs of generate_timeline in one behaviour
MaxRuns == 3

TitleLabel   == "**title**:"          \* **标题**：
LinkLabel    == "**link**:"           \* **链接**：

\* further tokens of the timeline, with the text they stand for:
\*   "**source**:"     **来源**：
\*   "**summary**:"    **摘要**：
\*   "**judgement**:"  **我的判断**：
\*   "(no-link)"       （无链接）
\*   "(no-summary)"    （无摘要）
\*   "(left-blank)"    （留空，供人工补充）

\* the end of the run of non-whitespace tokens that starts at i
RunEnd(content, i) ==
    CHOOSE j \in i..Len(content) :
        /\ \A k \in i..j : ~IsSpace(content[k])
        /\ j = Len(content) \/ IsSpace(content[j + 1])

\* re.findall(r'\*\*链接\*\*：(https?://[^\s\n]+)', content), as a set;
\* an absent file gives the empty set
LoadExistingUrls(exists, content) ==
    IF ~exists THEN {}
    ELSE { SubSeq(content, i + 1, RunEnd(content, i + 2)) :
             i \in { i \in 1..(Len(content) - 2) :
                       /\ content[i] = LinkLabel
                       /\ content[i + 1] \in {"http://", "https://"}
                       /\ ~IsSpace(content[i + 2]) } }

\* new_trends: the trends without url, and those whose url is not in existing_urls
RECURSIVE NewTrends(_, _)
NewTrends(trends, existing_urls) ==
    IF trends = <<>> THEN <<>>
    ELSE (IF Head(trends).url.null THEN <<Head(trends)>>
          ELSE IF Head(trends).url.text \notin existing_urls THEN <<Head(trends)>>
          ELSE <<>>)
         \o NewTrends(Tail(trends), existing_urls)

\* group_by_date: grouped[date], the trends of the date in their order
GroupByDate(trends, date) ==
    LET OfDate(trend) == trend.date = date IN SelectSeq(trends, OfDate)

\* sorted(grouped.keys(), reverse=True)
RECURSIVE SortedDates(_)
SortedDates(dates) ==
    IF dates = {} THEN <<>>
    ELSE LET latest == CHOOSE d \in dates : \A e \in dates : DateOrd(e) <= DateOrd(d)
         IN  <<latest>> \o SortedDates(dates \ {latest})

\* the text generate_timeline appends to new_content for one trend
TrendBlock(trend) ==
    LET url     == IF ~trend.url.null /\ trend.url.text # <<>>
                   THEN trend.url.text ELSE <<"(no-link)">>
        summary == IF trend.summary # <<>> THEN trend.summary ELSE <<"(no-summary)">>
    IN  <<NL, TitleLabel>> \o trend.title \o <<" ", " ", NL>>
        \o <<"**source**:", trend.source, " ", " ", NL>>
        \o <<LinkLabel>> \o url \o <<NL>>
        \o <<NL, "**summary**:", " ", " ", NL>> \o summary \o <<NL>>
        \o <<NL, "**judgement**:", " ", " ", NL, "(left-blank)", NL>>
        \o <<NL, "---", NL>>

\* "\n## <date>\n" and the blocks of the trends of the date
DateSection(date, trends) ==
    <<NL>> \o H2 \o <<date, NL>>
    \o Flatten([i \in 1..Len(trends) |-> TrendBlock(trends[i])])

\* ''.join(new_content)
NewContent(new_trends) ==
    LET sorted_dates == SortedDates({new_trends[i].date : i \in 1..Len(new_trends)})
    IN  Flatten([k \in 1..Len(sorted_dates) |->
                    DateSection(sorted_dates[k], GroupByDate(new_trends, sorted_dates[k]))])

\* header_end_line: one past the first line that starts with '#', 0 without one
HeaderEndLine(lines) ==
    IF \E i \in 1..Len(lines) : lines[i] # <<>> /\ lines[i][1] = "#"
    THEN CHOOSE i \in 1..Len(lines) :
            /\ lines[i] # <<>> /\ lines[i][1] = "#"
            /\ \A j \in 1..(i - 1) : lines[j] = <<>> \/ lines[j][1] # "#"
    ELSE 0

\* the new content put at the end of the existing file
InsertAtEnd(existing_content, new_content) == existing_content \o new_content

\* final_content for an existing file
InsertAfterHeader(existing_content, new_content) ==
    LET lines           == Split(existing_content, <<NL>>)
        header_end_line == HeaderEndLine(lines)
        header_lines    == SubSeq(lines, 1, header_end_line)
        body_lines      == SubSeq(lines, header_end_line + 1, Len(lines))
    IN  Join(header_lines, <<NL>>) \o <<NL>> \o new_content \o Join(body_lines, <<NL>>)

\* final_content written as for a new file, whatever the file held
FinalContentOfNewFile(exists, existing_content, topic_name, new_trends) ==
    <<"#", " ">> \o topic_name \o <<NL>> \o NewContent(new_trends)

\* final_content
FinalContent(exists, existing_content, topic_name, new_trends) ==
    IF exists THEN InsertAfterHeader(existing_content, NewContent(new_trends))
    ELSE <<"#", " ">> \o topic_name \o <<NL>> \o NewContent(new_trends)

\* the batches given to generate_timeline, trends as get_all_trends reads
\* them (url None when the row has none): trends with http and https urls,
\* with a url of another scheme, with a url without scheme, without url
Batches ==
    LET Url(text) == [null |-> FALSE, text |-> text]
        NullUrl   == [null |-> TRUE, text |-> <<>>]
        Trend(title, url, summary, date) ==
            [title |-> title, source |-> "src1", url |-> url, summary |-> summary,
             date |-> date]
        TrendU1  == Trend(<<"t1">>, Url(<<"http://", "u1">>), <<"s1">>, "2026-02-01")
        TrendU2  == Trend(<<"t2">>, Url(<<"https://", "u2">>), <<>>, "2026-02-02")
        TrendU3  == Trend(<<"t3">>, Url(<<"https://", "u3">>), <<"s3">>, "2026-02-02")
        TrendU3b == Trend(<<"t3">>, Url(<<"https://", "u3">>), <<"s3">>, "2026-02-01")
        TrendN   == Trend(<<"t4">>, NullUrl, <<>>, "2026-02-01")
        TrendF   == Trend(<<"t5">>, Url(<<"ftp://", "u5">>), <<"s5">>, "2026-02-02")
        TrendW   == Trend(<<"t6">>, Url(<<"u6">>), <<>>, "2026-02-01")
    IN  { <<>>, <<TrendU1>>, <<TrendU1, TrendU2>>, <<TrendU2, TrendU1>>,
          <<TrendU1, TrendU3, TrendN, TrendN>>, <<TrendN>>, <<TrendU3>>,
          <<TrendU3, TrendU3b>>, <<TrendF>>, <<TrendF, TrendU1>>, <<TrendW>>,
          <<TrendW, TrendU2>> }

generate_timeline(topic_id, trends) ==
    /\ tl.runs < MaxRuns
    /\ LET existing_urls == LoadExistingUrls(tl.exists, tl.content)
           new_trends    == NewTrends(trends, existing_urls)
       IN  tl' = [exists |-> tl.exists \/ new_trends # <<>>,
                  content |-> IF new_trends = <<>> THEN tl.content
                              ELSE FinalContent(tl.exists, tl.content,
                                                TopicName(topic_id), new_trends),
                  runs |-> tl.runs + 1, called |-> TRUE, trends |-> trends,
                  existed |-> tl.exists, before |-> tl.content,
                  new_trends |-> new_trends]
    /\ UNCHANGED <<files, dirs, last, digest, nops, mt, cl>>

GenerateTimeline == \E trends \in Batches : generate_timeline("ai-tech", trends)

\* no timeline file yet, or one a human wrote: a line of introduction above
\* the heading and a line of text below it
InitTimeline ==
    /\ tl \in { NoTimeline,
                 [NoTimeline EXCEPT !.exists = TRUE,
                                    !.content = <<"intro", NL>> \o <<"#", " ">>
                                                \o TopicName("ai-tech")
                                                \o <<NL, "old-text", NL>>] }
    /\ files = <<>>
    /\ dirs = {}
    /\ last = NoOp
    /\ digest = NoDigest
    /\ nops = 0
    /\ mt = NoMatch
    /\ cl = NoClassify

NextTimeline == GenerateTimeline

SpecTimeline == InitTimeline /\ [][NextTimeline]_vars

-----------------------------------------------------------------------------
(* Claims about generate_timeline *)

\* the url is recorded in the file: it is the link of an entry
Recorded(content, url) == Contains(content, <<LinkLabel>> \o url \o <<NL>>)

\* the trend has a url
HasUrl(trend) == ~trend.url.null /\ trend.url.text # <<>>

\* the entries of a timeline file
EntryCount(content) == CountOcc(content, <<TitleLabel>>)

(* C3: a run of generate_timeline against an existing timeline file adds
   exactly the items of the batch that have no url or whose url is not
   recorded in the file: an item whose url is recorded is dropped, an item
   without url is added. *)
C3_TimelineDedup ==
    (tl.called /\ tl.existed) =>
        LET Kept(trend) == ~HasUrl(trend) \/ ~Recorded(tl.before, trend.url.text)
        IN  /\ tl.new_trends = SelectSeq(tl.trends, Kept)
            /\ EntryCount(tl.content)
                  = EntryCount(tl.before) + Len(SelectSeq(tl.trends, Kept))

\* where the first heading line of a file starts: the first "#" at the
\* start of a line, 0 when the file has no heading line
HeadingStart(content) ==
    LET starts == {i \in 1..Len(content) :
                      content[i] = "#" /\ (i = 1 \/ content[i - 1] = NL)}
    IN  IF starts = {} THEN 0 ELSE CHOOSE i \in starts : \A j \in starts : i <= j

\* where the first heading line ends: the newline that closes it
HeadingEnd(content) ==
    CHOOSE p \in HeadingStart(content)..Len(content) :
        /\ content[p] = NL
        /\ \A q \in HeadingStart(content)..(p - 1) : content[q] # NL

\* the text a run put into the file: what stands after the heading line and
\* before the previous body
InsertedBlock ==
    LET p == HeadingEnd(tl.before)
    IN  SubSeq(tl.content, p + 1, p + Len(tl.content) - Len(tl.before))

(* C18: a run of generate_timeline that adds entries to an existing
   timeline file leaves every line up to and including the first heading
   line at the top, puts the new block right after it and the whole previous
   body after the new block; the new block holds the entries of the run, its
   date sections in descending date order; no entry of an earlier run
   stands before the new block. *)
C18_TimelineInsertion ==
    (tl.called /\ tl.existed /\ tl.new_trends # <<>>) =>
        LET p     == HeadingEnd(tl.before)
            block == InsertedBlock
        IN  /\ HeadingStart(tl.before) > 0
            /\ SubSeq(tl.content, 1, p) = SubSeq(tl.before, 1, p)
            /\ SubSeq(tl.content, p + Len(block) + 1, Len(tl.content))
                  = SubSeq(tl.before, p + 1, Len(tl.before))
            /\ EntryCount(block) = Len(tl.new_trends)
            /\ \A i \in 1..Len(tl.new_trends) :
                  Contains(block, <<TitleLabel>> \o tl.new_trends[i].title)
            /\ EntryCount(SubSeq(tl.before, 1, p)) = 0
            /\ \A d1, d2 \in CalendarDates :
                  /\ CountOcc(block, H2 \o <<d1>>) <= 1
                  /\ ( /\ Contains(block, H2 \o <<d1>>) /\ Contains(block, H2 \o <<d2>>)
                       /\ DateOrd(d1) > DateOrd(d2) )
                     => Find(block, H2 \o <<d1>>) < Find(block, H2 \o <<d2>>)

\* a run added entries of two dates, given in ascending order, to a file
\* with a line above its heading and with entries of an earlier run
C18_Witness ==
    /\ tl.called /\ tl.existed /\ tl.runs >= 2
    /\ HeadingStart(tl.before) > 1
    /\ EntryCount(tl.before) > 0
    /\ Len(tl.new_trends) = 2
    /\ DateOrd(tl.new_trends[1].date) < DateOrd(tl.new_trends[2].date)
    /\ Find(InsertedBlock, <<TitleLabel>> \o tl.new_trends[2].title)
         < Find(InsertedBlock, <<TitleLabel>> \o tl.new_trends[1].title)

(* C24: a run of generate_timeline against an existing file only inserts
   text: the file after the run is the file before the run with one block
   of text put in at one place, so everything the file held (heading,
   earlier entries, text a human wrote) is kept in its order; a run with no
   new item leaves the file as it was. *)
C24_TimelineAppendOnly ==
    (tl.called /\ tl.existed) =>
        /\ tl.exists
        /\ \E p \in 0..Len(tl.before) :
              /\ SubSeq(tl.content, 1, p) = SubSeq(tl.before, 1, p)
              /\ SubSeq(tl.content, Len(tl.content) - (Len(tl.before) - p) + 1,
                        Len(tl.content))
                    = SubSeq(tl.before, p + 1, Len(tl.before))
              /\ Len(tl.content) >= Len(tl.before)
        /\ tl.new_trends = <<>> => tl.content = tl.before

\* the third run found nothing new in its batch and left a file with the
\* text of a human and the entries of two runs as it was
C24_Witness ==
    /\ tl.called /\ tl.existed /\ tl.runs = 3
    /\ tl.trends # <<>> /\ tl.new_trends = <<>>
    /\ Contains(tl.content, <<"old-text">>)
    /\ EntryCount(tl.content) >= 2
    /\ tl.content = tl.before

\* the link an entry records: the text between the link label at position
\* i and the end of its line
LinkAt(content, i) ==
    LET rest == SubSeq(content, i + 1, Len(content))
    IN  SubSeq(rest, 1, Find(rest, <<NL>>) - 1)

(* C25: in a timeline file built by runs of generate_timeline from no file,
   no two entries record the same url, whatever the batches (a url twice in
   one batch, urls of any scheme or without scheme). *)
C25_TimelineUrlUnique ==
    (tl.exists /\ ~Contains(tl.content, <<"old-text">>)) =>
        \A i, j \in {k \in 1..Len(tl.content) : tl.content[k] = LinkLabel} :
            (i # j /\ LinkAt(tl.content, i) # <<"(no-link)">>)
                => LinkAt(tl.content, i) # LinkAt(tl.content, j)

-----------------------------------------------------------------------------
(* TopicStorage.list_topic_dates and read_topic_file: the archive queried  *)
(* between saves. `last` also carries `written`: for every (topic_id,      *)
(* date) saved so far, the content the most recent save wrote for it.      *)

\* the stems of the *.md files of the topic directory
Stems(topic_id) == {k[2] : k \in {x \in DOMAIN files : x[1] = topic_id}}

\* the listing in ascending order
ListTopicDatesAscending(topic_id) ==
    IF topic_id \notin dirs THEN <<>>
    ELSE LET desc == SortedDates(Stems(topic_id))
         IN  [i \in 1..Len(desc) |-> desc[Len(desc) + 1 - i]]

\* list_topic_dates: [] without the directory, else sorted(dates, reverse=True)
ListTopicDates(topic_id) ==
    IF topic_id \notin dirs THEN <<>>
    ELSE SortedDates(Stems(topic_id))

\* a save of one of four records, under the display name of the topic or
\* under a name that holds " - " or "#"; no record of the topic "sports" is
\* saved. titles: the title line of the last write of each record that
\* was not a merge into an existing one
archive_save ==
    \E k \in { <<"ai-tech", "2026-02-01">>, <<"ai-tech", "2026-01-31">>,
                <<"ai-tech", "2026-02-03">>, <<"finance", "2026-02-01">> },
       append \in BOOLEAN,
       topic_name \in {TopicName("ai-tech"), <<"AI", " - ", "KeJi">>, <<"C", "#">>} :
        LET items   == IF append THEN <<ItemH1>> ELSE <<>>
            content == SavedContent(k[2], k[1], topic_name, items, append)
            merged  == k \in DOMAIN files /\ append
        IN  /\ nops < MaxOps
            /\ dirs' = dirs \cup {k[1]}
            /\ files' = Write(k[1], k[2], content)
            /\ last' = [op |-> "save", topic_id |-> k[1], date |-> k[2],
                        merged |-> merged,
                        written |-> [x \in DOMAIN last.written \cup {k} |->
                                        IF x = k THEN content ELSE last.written[x]],
                        titles |-> [x \in DOMAIN last.titles \cup {k} |->
                                        IF x = k /\ ~merged THEN TitleLine(k[2], topic_name)
                                        ELSE last.titles[x]]]
            /\ digest' = NoDigest
            /\ nops' = nops + 1
            /\ UNCHANGED <<mt, cl, tl>>

list_topic_dates ==
    \E topic_id \in Topics \cup {"sports"} :
        /\ nops < MaxOps
        /\ last' = [op |-> "list", topic_id |-> topic_id,
                    result |-> ListTopicDates(topic_id), written |-> last.written,
                    titles |-> last.titles]
        /\ nops' = nops + 1
        /\ UNCHANGED <<files, dirs, digest, mt, cl, tl>>

read_topic_file_call ==
    \E k \in { <<"ai-tech", "2026-02-01">>, <<"ai-tech", "2026-02-03">>,
                <<"finance", "2026-02-01">>, <<"sports", "2026-02-01">> } :
        /\ nops < MaxOps
        /\ last' = [op |-> "read", topic_id |-> k[1], date |-> k[2],
                    result |-> read_topic_file(k[1], k[2]), written |-> last.written,
                    titles |-> last.titles]
        /\ nops' = nops + 1
        /\ UNCHANGED <<files, dirs, digest, mt, cl, tl>>

\* TopicStorage.__init__: an empty base directory, nothing written yet
InitArchive ==
    /\ files = <<>>
    /\ dirs = {}
    /\ last = [op |-> "none", written |-> <<>>, titles |-> <<>>]
    /\ digest = NoDigest
    /\ nops = 0
    /\ mt = NoMatch
    /\ cl = NoClassify
    /\ tl = NoTimeline

NextArchive == archive_save \/ list_topic_dates \/ read_topic_file_call

SpecArchive == InitArchive /\ [][NextArchive]_vars

\* the dates a record of the topic was saved for
SavedDates(topic_id) ==
    {k[2] : k \in {x \in DOMAIN last.written : x[1] = topic_id}}

(* C14: after any sequence of saves, list_topic_dates(topic_id) returns
   the dates a record of the topic was saved for, each once, in descending
   order (none for a topic never saved), and read_topic_file(topic_id, date)
   returns what the most recent save for (topic_id, date) wrote, and None
   when nothing was saved for it. *)
C14_StoreListing ==
    /\ last.op = "list" =>
          /\ {last.result[i] : i \in 1..Len(last.result)} = SavedDates(last.topic_id)
          /\ \A i, j \in 1..Len(last.result) :
                i < j => DateOrd(last.result[i]) > DateOrd(last.result[j])
    /\ last.op = "read" =>
          IF <<last.topic_id, last.date>> \in DOMAIN last.written
          THEN /\ last.result.found
               /\ last.result.text = last.written[<<last.topic_id, last.date>>]
          ELSE ~last.result.found

\* two dates were saved for a topic, the earlier one last, and then listed
C14_Witness ==
    /\ last.op = "list" /\ last.topic_id = "ai-tech"
    /\ last.result = <<"2026-02-03", "2026-01-31">>
    /\ nops = 3

(* C23: the title line of every record is the title line
   "# <topic_name> - <date>" its last write that was not a merge wrote:
   the append-mode saves that follow keep it, whatever their topic_name
   argument and whatever the name, with " - " or "#" in it or not. *)
C23_TitleStability ==
    \A k \in DOMAIN files :
        SubSeq(files[k], 1, Find(files[k], <<NL>>)) = last.titles[k]

-----------------------------------------------------------------------------
(* TopicStorage.save_topic_classification over a record that was damaged   *)
(* outside the program. "0xFF" stands for a byte that is not valid UTF-8;  *)
(* `last` also carries `raised`: the save ended with an exception.         *)

\* save_topic_classification with the read of the existing file: f.read()
\* raises UnicodeDecodeError on a file that is not valid UTF-8, nothing
\* catches it and nothing is written
TrySave(date, topic_id, topic_name, items, append) ==
    LET existed  == <<topic_id, date>> \in DOMAIN files
        existing == IF existed THEN files[<<topic_id, date>>] ELSE <<>>
    IN  IF existed /\ append /\ (\E i \in 1..Len(existing) : existing[i] = "0xFF")
        THEN [raised |-> TRUE, content |-> existing]
        ELSE [raised |-> FALSE,
              content |-> SavedContent(date, topic_id, topic_name, items, append)]

save_over_damaged ==
    \E items \in ItemLists, append \in BOOLEAN :
        LET topic_id == "ai-tech"
            date     == "2026-02-01"
            existed  == <<topic_id, date>> \in DOMAIN files
            before   == IF existed THEN files[<<topic_id, date>>] ELSE <<>>
            saved    == TrySave(date, topic_id, TopicName(topic_id), items, append)
        IN  /\ nops < MaxOps
            /\ dirs' = dirs \cup {topic_id}
            /\ files' = IF saved.raised THEN files
                        ELSE Write(topic_id, date, saved.content)
            /\ last' = [raised |-> saved.raised]
                       @@ Op("save", topic_id, date, items, append, existed, before, FALSE)
            /\ digest' = NoDigest
            /\ nops' = nops + 1
            /\ UNCHANGED <<mt, cl, tl>>

\* the record of ai-tech/2026-02-01 before the first save: none (and no
\* topic directory), or a record that is not valid UTF-8, that lost its
\* section markers, that lost its title line, or whose two human regions
\* stand in the other order
InitDamaged ==
    /\ \E existing \in
          LET record == WithNotes(GenerateMarkdown("2026-02-01", TopicName("ai-tech"),
                                                  <<ItemH1>>), <<"N1">>)
              derived == Split(record, <<NL, "---", NL>>)[1]
          IN  { <<>>,
                <<"0xFF">> \o record,
                derived,
                SubSeq(record, Find(record, <<NL>>) + 1, Len(record)),
                derived \o <<NL, "---", NL>> \o ImpMarker \o <<NL, NL>> \o ImpLine
                    \o <<NL, NL>> \o NotesMarker \o <<NL, NL, "N1", NL>> } :
          /\ files = Stored(<<"ai-tech", "2026-02-01">> :> existing)
          /\ dirs = {k[1] : k \in DOMAIN files}
    /\ last = [raised |-> FALSE] @@ NoOp
    /\ digest = NoDigest
    /\ nops = 0
    /\ mt = NoMatch
    /\ cl = NoClassify
    /\ tl = NoTimeline

NextDamaged == save_over_damaged

SpecDamaged == InitDamaged /\ [][NextDamaged]_vars

\* the record cannot be read or parsed as a record: it is not valid UTF-8,
\* or it has no title line, or not the two section markers once and in order
Damaged(content) ==
    \/ \E i \in 1..Len(content) : content[i] = "0xFF"
    \/ ~WellFormed(content)
    \/ ~MatchAt(content, <<"#", " ">>, 1)

(* C19: an append-mode save over an existing record that cannot be read or
   parsed (not valid UTF-8, section markers missing or in the other order,
   title line missing) does not fail and writes the fresh record of the new
   items with the placeholder human regions; after any save the topic
   directory exists. *)
C19_SaveFailurePolicy ==
    /\ last.op = "save" => last.topic_id \in dirs
    /\ (last.op = "save" /\ last.append /\ last.existed /\ Damaged(last.before))
          => /\ ~last.raised
             /\ LastFile = GenerateMarkdown(last.date, TopicName(last.topic_id),
                                            last.items)

-----------------------------------------------------------------------------
(* Saves that may end with a write error, and the summarizer reading the   *)
(* archive between them                                                    *)

\* save_topic_classification with the outcomes of its three writes: mkdir
\* raises and nothing is touched; open(file_path, "w") raises and only the
\* directory was made; f.write raises after open truncated the file, which
\* is left empty or with the first part of the content; or all succeed
save_or_fail ==
    \E k \in StoreKeys, items \in {<<>>, <<ItemH1>>}, append \in BOOLEAN,
       outcome \in {"written", "mkdir-raised", "open-raised", "write-raised-empty",
                    "write-raised-partial"} :
        LET existed == k \in DOMAIN files
            before  == IF existed THEN files[k] ELSE <<>>
            content == SavedContent(k[2], k[1], TopicName(k[1]), items, append)
        IN  /\ nops < MaxOps
            /\ outcome = "mkdir-raised" => k[1] \notin dirs
            /\ dirs' = IF outcome = "mkdir-raised" THEN dirs ELSE dirs \cup {k[1]}
            /\ files' = CASE outcome = "written" -> Write(k[1], k[2], content)
                          [] outcome = "write-raised-empty" -> Write(k[1], k[2], <<>>)
                          [] outcome = "write-raised-partial" ->
                                Write(k[1], k[2], SubSeq(content, 1, Len(content) \div 2))
                          [] OTHER -> files
            /\ last' = [raised |-> outcome # "written"]
                       @@ Op("save", k[1], k[2], items, append, existed, before, FALSE)
            /\ digest' = NoDigest
            /\ nops' = nops + 1
            /\ UNCHANGED <<mt, cl, tl>>

\* get_recent_summaries called between the saves, over the three days
\* before 2026-02-03
summarize_between_saves ==
    /\ ~digest.called
    /\ \E order \in Orders(dirs) :
          digest' = RecentSummaries(3, "2026-02-03", 3000, order, TRUE)
    /\ last' = [raised |-> FALSE]
               @@ Op("summarize", None, None, <<>>, FALSE, FALSE, <<>>, FALSE)
    /\ UNCHANGED <<files, dirs, nops, mt, cl, tl>>

NextFrame == save_or_fail \/ summarize_between_saves

SpecFrame == InitStore /\ [][NextFrame]_vars

(* C21: a step of save for (topic_id, date), whether it succeeds or raises
   a write error, leaves every record other than the one of (topic_id, date)
   as it was: none is created, changed or deleted; a step of
   get_recent_summaries leaves every record and every directory as it was. *)
C21_SaveFrame ==
    [][ /\ last'.op = "save" =>
              \A k \in (DOMAIN files \cup DOMAIN files')
                            \ {<<last'.topic_id, last'.date>>} :
                  k \in DOMAIN files /\ k \in DOMAIN files' /\ files'[k] = files[k]
        /\ last'.op = "summarize" => (files' = files /\ dirs' = dirs) ]_vars

\* a save of a topic with two records raised after truncating its file
C21_Witness ==
    /\ last.op = "save" /\ last.raised /\ last.existed
    /\ files[<<last.topic_id, last.date>>] = <<>>
    /\ \E k \in DOMAIN files :
          k[1] = last.topic_id /\ k[2] # last.date /\ files[k] # <<>>

-----------------------------------------------------------------------------
(* Claims about the statistics read back from a saved record *)

(* C22: the statistics _extract_stats reads from the record a save wrote
   are the number of items saved, of hotlist items and of rss items,
   whatever the titles and the human notes of the record. *)
C22_StatsRoundTrip ==
    last.op = "save" =>
        ExtractStats(LastFile)
            = [total_items |-> Len(last.items),
               hotlist     |-> CountType(last.items, "hotlist"),
               rss         |-> CountType(last.items, "rss")]

-----------------------------------------------------------------------------
(* TopicRouter.route_trends (topic-layer/router.py). A summary is          *)
(* [null, text]: null for the None that get_all_trends stores.             *)

\* f"{title} {summary}": None is formatted as the four characters "None"
SearchText(trend) ==
    trend.title \o <<" ">>
        \o (IF trend.summary.null THEN <<"N", "o", "n", "e">> ELSE trend.summary.text)

\* routed: for every topic, in the order of self.topics, the trends whose
\* search text matches the keywords of the topic, in the order of trends
RouteTrends(topics, trends) ==
    [t \in 1..Len(topics) |->
        LET Routed(trend) == MatchKeywords(SearchText(trend), topics[t].keywords)
        IN  SelectSeq(trends, Routed)]

route_trends ==
    /\ ~mt.run
    /\ mt' = [mt EXCEPT !.run = TRUE, !.routed = RouteTrends(mt.topics, mt.trends)]
    /\ UNCHANGED <<files, dirs, last, digest, nops, cl, tl>>

\* router topics with one or two keywords, and one or two trends with a
\* title and a summary that is None, empty or a text
InitRoute ==
    /\ \E topics \in SeqsOf({[keywords |-> ks] :
                                ks \in { << <<"a">> >>, << <<"w">>, <<"a", " ", "w">> >>,
                                         << <<"a", " ", "w">> >>,
                                         << <<"n", "o", "n", "e">> >>, << <<CJK>> >> }},
                            1, 2),
          trends \in SeqsOf({[title |-> title, summary |-> summary] :
                                title \in { <<"a">>, <<"w">>, <<"A", " ", "+">>, <<CJK, "a">> },
                                summary \in { [null |-> TRUE, text |-> <<>>],
                                              [null |-> FALSE, text |-> <<>>],
                                              [null |-> FALSE, text |-> <<"w">>] }},
                            1, 1) :
          mt = [run |-> FALSE, topics |-> topics, trends |-> trends, routed |-> <<>>]
    /\ files = <<>>
    /\ dirs = {}
    /\ last = NoOp
    /\ digest = NoDigest
    /\ nops = 0
    /\ cl = NoClassify
    /\ tl = NoTimeline

NextRoute == route_trends

SpecRoute == InitRoute /\ [][NextRoute]_vars

\* one of the keywords matches the title of the trend, or its summary when
\* it has one
MatchesTitleOrSummary(trend, keywords) ==
    \/ MatchKeywords(trend.title, keywords)
    \/ ~trend.summary.null /\ MatchKeywords(trend.summary.text, keywords)

(* C26: route_trends puts a trend into the list of a topic exactly when
   one of the topic's keywords matches the title of the trend or its
   summary; a trend without summary (None) is matched on its title alone. *)
C26_RouterMatchingScope ==
    mt.run =>
        \A t \in 1..Len(mt.topics), i \in 1..Len(mt.trends) :
            (\E j \in 1..Len(mt.routed[t]) : mt.routed[t][j] = mt.trends[i])
                <=> MatchesTitleOrSummary(mt.trends[i], mt.topics[t].keywords)

-----------------------------------------------------------------------------
(* AIAnalyzer._prepare_news_content (trendradar/ai/analyzer.py). A stat is *)
(* [word, titles]; an entry of titles is [isdict, title]. A line of the    *)
(* prompt is [header, text]: the heading of a group or the line of one     *)
(* item; the source, rank, time and count fields of an item line are not   *)
(* part of the model.                                                      *)

MaxNews == 3

PrepareNewsContent(stats, rss_stats, max_news, include_rss) ==
    LET Header(stat) == [header |-> TRUE, text |-> stat.word]
        Line(t) == [header |-> FALSE, text |-> t.title]
        \* the loop over the titles of one group: entries that are no dict or
        \* have no title are skipped, the loop breaks once count >= limit
        RECURSIVE TitleLoop(_, _, _, _)
        TitleLoop(titles, i, acc, limit) ==
            IF i > Len(titles) THEN acc
            ELSE IF ~titles[i].isdict \/ titles[i].title = <<>>
                 THEN TitleLoop(titles, i + 1, acc, limit)
                 ELSE LET next == [lines |-> Append(acc.lines, Line(titles[i])),
                                   count |-> acc.count + 1]
                      IN  IF next.count >= limit THEN next
                          ELSE TitleLoop(titles, i + 1, next, limit)
        Group(stat, acc, limit) ==
            IF stat.word # <<>> /\ stat.titles # <<>>
            THEN TitleLoop(stat.titles, 1,
                        [acc EXCEPT !.lines = Append(acc.lines, Header(stat))], limit)
            ELSE acc
        \* hotlist: the limit is tested after each group
        RECURSIVE Hotlist(_, _)
        Hotlist(s, acc) ==
            IF s > Len(stats) THEN acc
            ELSE LET next == Group(stats[s], acc, max_news)
                 IN  IF next.count >= max_news THEN next ELSE Hotlist(s + 1, next)
        news == Hotlist(1, [lines |-> <<>>, count |-> 0])
        remaining == max_news - news.count
        \* RSS: the quota is tested before each group
        RECURSIVE Rss(_, _)
        Rss(s, acc) ==
            IF s > Len(rss_stats) THEN acc
            ELSE IF acc.count >= remaining THEN acc
            ELSE Rss(s + 1, Group(rss_stats[s], acc, remaining))
        rss == IF include_rss /\ rss_stats # <<>>
               THEN Rss(1, [lines |-> <<>>, count |-> 0])
               ELSE [lines |-> <<>>, count |-> 0]
        RECURSIVE Total(_, _)
        Total(ss, s) == IF s > Len(ss) THEN 0 ELSE Len(ss[s].titles) + Total(ss, s + 1)
    IN  [news_lines |-> news.lines, rss_lines |-> rss.lines,
         hotlist_total |-> Total(stats, 1), rss_total |-> Total(rss_stats, 1),
         news_count |-> news.count, rss_count |-> rss.count,
         total_count |-> news.count + rss.count]

prepare_news_content ==
    /\ ~cl.run
    /\ cl' = [cl EXCEPT !.run = TRUE,
                        !.result = PrepareNewsContent(cl.stats, cl.rss_stats,
                                                      cl.max_news, cl.include_rss)]
    /\ UNCHANGED <<files, dirs, last, digest, nops, mt, tl>>

\* up to two groups of hotlist and of RSS statistics, a limit from 0 to
\* MaxNews, RSS enabled or not
InitPrepare ==
    /\ \E max_news \in 0..MaxNews, include_rss \in BOOLEAN :
         LET T1 == [isdict |-> TRUE, title |-> <<"a">>]
             T2 == [isdict |-> TRUE, title |-> <<"w">>]
             NoDict == [isdict |-> FALSE, title |-> <<>>]
             NoTitle == [isdict |-> TRUE, title |-> <<>>]
             Stats == {[word |-> <<"k">>, titles |-> <<T1>>],
                       [word |-> <<"k">>, titles |-> <<T1, T2>>],
                       [word |-> <<"k">>, titles |-> <<NoDict, T2>>],
                       [word |-> <<"k">>, titles |-> <<NoTitle>>],
                       [word |-> <<>>, titles |-> <<T1>>],
                       [word |-> <<"k">>, titles |-> <<>>]}
         IN  \E stats \in SeqsOf(Stats, 0, 2), rss_stats \in SeqsOf(Stats, 0, 2) :
                 cl = [run |-> FALSE, stats |-> stats, rss_stats |-> rss_stats,
                       max_news |-> max_news, include_rss |-> include_rss,
                       result |-> <<>>]
    /\ files = <<>>
    /\ dirs = {}
    /\ last = NoOp
    /\ digest = NoDigest
    /\ nops = 0
    /\ mt = NoMatch
    /\ tl = NoTimeline

NextPrepare == prepare_news_content

SpecPrepare == InitPrepare /\ [][NextPrepare]_vars

\* the number of item lines among the lines of a part of the prompt
ItemLines(lines) ==
    LET IsItem(line) == ~line.header IN Len(SelectSeq(lines, IsItem))

(* C27: for every limit MAX_NEWS_FOR_ANALYSIS >= 0 the number of news
   lines put into the prompt, hotlist lines plus RSS lines, is the
   analyzed count returned and never exceeds the limit; RSS lines only
   fill the quota the hotlist lines leave. *)
C27_AnalysisLimit ==
    cl.run =>
        /\ cl.result.total_count
              = ItemLines(cl.result.news_lines) + ItemLines(cl.result.rss_lines)
        /\ cl.result.total_count <= cl.max_news
        /\ ItemLines(cl.result.rss_lines) <= cl.max_news - ItemLines(cl.result.news_lines)

=============================================================================
